---------------------------- MODULE Spec2Model ----------------------------
(***************************************************************************)
(* Model of the Qn vector correction steps of FlowVectorCorrections:       *)
(* one detector configuration with its ordered set of correction steps     *)
(* (Recentering, Alignment, TwistAndRescale), the reference configuration  *)
(* used for alignment, the attach of calibration input and the per-event   *)
(* processing chain.                                                       *)
(*                                                                         *)
(* Numbers are integers.  The calibration inputs are chosen so that the    *)
(* alignment angle atan2(XY-YX, XX+YY) is a multiple of a quarter turn,    *)
(* which makes the sine and cosine of every rotation exact.                *)
(***************************************************************************)
EXTENDS Integers, Sequences, FiniteSets, TLC

(***************************************************************************)
(* Bounds of the model.                                                    *)
(***************************************************************************)
MaxEvents == 2

\* the highest harmonic a Qn vector can have
MaxHarmonic == 3

(***************************************************************************)
(* The correction step classes and their static identity data.             *)
(***************************************************************************)
Kinds == {"Recentering", "Alignment", "TwistAndRescale"}

\* QnCorrectionStepStatus
QCORRSTEP_calibration == "calibration"
QCORRSTEP_apply == "apply"
QCORRSTEP_applyCollect == "applyCollect"
QCORRSTEP_passive == "passive"
QnCorrectionStepStatus ==
  {QCORRSTEP_calibration, QCORRSTEP_apply, QCORRSTEP_applyCollect, QCORRSTEP_passive}

\* szKey: the four characters of the ordering key, as character codes
\* ("CCCC", "EEEE", "HHHH")
szKey(k) ==
  CASE k = "Recentering" -> <<67, 67, 67, 67>>
    [] k = "Alignment" -> <<69, 69, 69, 69>>
    [] k = "TwistAndRescale" -> <<72, 72, 72, 72>>

\* szCorrectionName
szCorrectionName(k) ==
  CASE k = "Recentering" -> "Recentering and width equalization"
    [] k = "Alignment" -> "Alignment"
    [] k = "TwistAndRescale" -> "Alignment"

\* szCorrectedQnVectorName
szCorrectedQnVectorName(k) ==
  CASE k = "Recentering" -> "rec"
    [] k = "Alignment" -> "align"
    [] k = "TwistAndRescale" -> "align"

\* the name of the plain Qn vector of a detector configuration
szPlainQnVectorName == "plain"

\* minimum number of entries for a TwistAndRescale input bin to be validated
fDefaultMinNoOfEntries == 2

\* the harmonic used for alignment, as configured for the run
fHarmonicForAlignment == 1

\* width equalization of the recentering step, as set by its constructor
fApplyWidthEqualization == FALSE

(***************************************************************************)
(* Lexical comparison of two keys: negative, zero or positive, as          *)
(* TString::CompareTo.                                                     *)
(***************************************************************************)
RECURSIVE CompareTo(_, _)
CompareTo(a, b) ==
  IF a = <<>> /\ b = <<>> THEN 0
  ELSE IF a = <<>> THEN -1
  ELSE IF b = <<>> THEN 1
  ELSE IF Head(a) < Head(b) THEN -1
  ELSE IF Head(a) > Head(b) THEN 1
  ELSE CompareTo(Tail(a), Tail(b))

\* QnCorrectionsCorrectionStepBase::Before
Before(s, t) == CompareTo(szKey(s), szKey(t)) < 0

(***************************************************************************)
(* QnCorrectionsCorrectionsSetOnQvector::AddCorrection: the new correction *)
(* is stored before the first stored correction it is Before().            *)
(***************************************************************************)
RECURSIVE AddCorrection(_, _)
AddCorrection(list, c) ==
  IF list = <<>> THEN <<c>>
  ELSE IF Before(c, Head(list)) THEN <<c>> \o list
  ELSE <<Head(list)>> \o AddCorrection(Tail(list), c)

\* a plausible slip: the correction is always stored at the end of the list
AddCorrectionOnQnVector_AddLast(list, c) == Append(list, c)

\* QnCorrectionsDetectorConfigurationBase::AddCorrectionOnQnVector
AddCorrectionOnQnVector(list, c) == AddCorrection(list, c)

(***************************************************************************)
(* Qn vectors.                                                             *)
(***************************************************************************)
Harmonics == {1, 2}

\* QnCorrectionsQnVector::Reset: coordinates zeroed, quality set good
ResetQnVector(name) ==
  [Qx |-> [h \in Harmonics |-> 0], Qy |-> [h \in Harmonics |-> 0],
   good |-> TRUE, name |-> name]

\* QnCorrectionsQnVector::Set(Qn, changename)
SetQnVector(self, Qn, changename) ==
  [Qx |-> Qn.Qx, Qy |-> Qn.Qy, good |-> Qn.good,
   name |-> IF changename THEN Qn.name ELSE self.name]

\* QnCorrectionsDetectorConfigurationBase::UpdateCurrentQnVector (changename = kTRUE)
UpdateCurrentQnVector(current, newQnVector) == SetQnVector(current, newQnVector, TRUE)


(***************************************************************************)
(* Event classes and calibration histograms.                               *)
(*                                                                         *)
(* A profile of components (recentering) holds per bin the number of       *)
(* entries and, per harmonic, the X and Y content and error; a profile of  *)
(* correlation components (alignment, twist and rescale) holds per bin the *)
(* number of entries, the XX, XY, YX, YY content and the XY, YX error.     *)
(***************************************************************************)
Bins == {1, 2}

ZeroComponents == [h \in Harmonics |-> 0]

EmptyComponentsBin ==
  [entries |-> 0, X |-> ZeroComponents, Y |-> ZeroComponents,
   eX |-> ZeroComponents, eY |-> ZeroComponents]

EmptyCorrelationBin ==
  [entries |-> 0, XX |-> 0, XY |-> 0, YX |-> 0, YY |-> 0, eXY |-> 0, eYX |-> 0]

EmptyBins(k) ==
  [b \in Bins |-> IF k = "Recentering" THEN EmptyComponentsBin ELSE EmptyCorrelationBin]

\* the histograms object of a step before CreateSupportHistograms
NoHistograms(k) == [created |-> FALSE, attached |-> FALSE, bins |-> EmptyBins(k)]

\* QnCorrectionsProfileComponents::FillX and FillY for every harmonic of Qn
FillComponents(bins, bin, Qn) ==
  [bins EXCEPT ![bin] =
     [@ EXCEPT !.entries = @ + 1,
               !.X = [h \in Harmonics |-> @[h] + Qn.Qx[h]],
               !.Y = [h \in Harmonics |-> @[h] + Qn.Qy[h]]]]

\* QnCorrectionsProfileCorrelationComponents::FillXX, FillXY, FillYX, FillYY
FillCorrelationComponents(bins, bin, xx, xy, yx, yy) ==
  [bins EXCEPT ![bin] =
     [@ EXCEPT !.entries = @ + 1, !.XX = @ + xx, !.XY = @ + xy,
               !.YX = @ + yx, !.YY = @ + yy]]

\* BinContentValidated: the bin has at least the minimum number of entries
BinContentValidated(bins, bin) == fDefaultMinNoOfEntries <= bins[bin].entries

(***************************************************************************)
(* The calibration inputs a run can be given.  Each list tells, per        *)
(* correction step, whether its histograms are found in the list, whether  *)
(* their layout matches and what they hold.                                *)
(***************************************************************************)
RecenteringMeans ==
  (1 :> [entries |-> 3, X |-> (1 :> 1 @@ 2 :> 0), Y |-> (1 :> 0 @@ 2 :> 1),
         eX |-> (1 :> 1 @@ 2 :> 1), eY |-> (1 :> 1 @@ 2 :> 1)]
   @@ 2 :> EmptyComponentsBin)

\* bin 1: null means with non-null widths; bin 2: means from a single entry
RecenteringZero ==
  (1 :> [entries |-> 3, X |-> (1 :> 0 @@ 2 :> 0), Y |-> (1 :> 0 @@ 2 :> 0),
         eX |-> (1 :> 2 @@ 2 :> 2), eY |-> (1 :> 2 @@ 2 :> 2)]
   @@ 2 :> [entries |-> 1, X |-> (1 :> 3 @@ 2 :> 0), Y |-> (1 :> 0 @@ 2 :> 2),
            eX |-> (1 :> 1 @@ 2 :> 1), eY |-> (1 :> 1 @@ 2 :> 1)])

\* bin 1: significant quarter turn; bin 2: the same content with one entry
CorrelationSignificant ==
  (1 :> [entries |-> 5, XX |-> 0, XY |-> 2, YX |-> -2, YY |-> 0, eXY |-> 1, eYX |-> 1]
   @@ 2 :> [entries |-> 1, XX |-> 0, XY |-> 2, YX |-> -2, YY |-> 0, eXY |-> 1, eYX |-> 1])

\* bin 1: not significant; bin 2: XY = YX with null errors and XX + YY < 0
CorrelationWeak ==
  (1 :> [entries |-> 5, XX |-> 0, XY |-> 1, YX |-> 0, YY |-> 0, eXY |-> 1, eYX |-> 1]
   @@ 2 :> [entries |-> 5, XX |-> -1, XY |-> 0, YX |-> 0, YY |-> 0, eXY |-> 0, eYX |-> 0])

\* bin 1: the significance is exactly 2 with exactly the minimum of entries;
\* bin 2: significant quarter turn with one entry less than the minimum
CorrelationBoundary ==
  (1 :> [entries |-> fDefaultMinNoOfEntries,
         XX |-> 0, XY |-> 2, YX |-> 0, YY |-> 0, eXY |-> 1, eYX |-> 0]
   @@ 2 :> [entries |-> fDefaultMinNoOfEntries - 1,
            XX |-> 0, XY |-> 0, YX |-> -3, YY |-> 0, eXY |-> 1, eYX |-> 0])

Absent(k) == [found |-> FALSE, layout |-> FALSE, bins |-> EmptyBins(k)]

CalibrationLists ==
  { [k \in Kinds |-> Absent(k)],
    ("Recentering" :> [found |-> TRUE, layout |-> TRUE, bins |-> RecenteringMeans]
     @@ "Alignment" :> [found |-> TRUE, layout |-> TRUE, bins |-> CorrelationSignificant]
     @@ "TwistAndRescale" :> [found |-> TRUE, layout |-> TRUE, bins |-> CorrelationBoundary]),
    ("Recentering" :> [found |-> TRUE, layout |-> FALSE, bins |-> RecenteringMeans]
     @@ "Alignment" :> [found |-> TRUE, layout |-> TRUE, bins |-> CorrelationWeak]
     @@ "TwistAndRescale" :> [found |-> TRUE, layout |-> TRUE, bins |-> CorrelationSignificant]),
    ("Recentering" :> [found |-> TRUE, layout |-> TRUE, bins |-> RecenteringZero]
     @@ "Alignment" :> [found |-> TRUE, layout |-> TRUE, bins |-> CorrelationBoundary]
     @@ "TwistAndRescale" :> [found |-> TRUE, layout |-> TRUE, bins |-> CorrelationWeak]) }

\* AttachHistograms: the histograms are found in the list with the expected layout
AttachHistograms(list, k) == list[k].found /\ list[k].layout

(***************************************************************************)
(* The events a run can be given: the quality of the plain Qn vector of    *)
(* the configuration, the quality of the current Qn vector of the          *)
(* reference configuration and the event class bin.                        *)
(***************************************************************************)
EventInputs == [good : BOOLEAN, refGood : BOOLEAN, bin : Bins]

PlainQnVector(ev) ==
  [Qx |-> (1 :> 2 @@ 2 :> 1), Qy |-> (1 :> 1 @@ 2 :> 3),
   good |-> ev.good, name |-> szPlainQnVectorName]

ReferenceQnVector(ev) ==
  [Qx |-> (1 :> 1 @@ 2 :> 0), Qy |-> (1 :> 2 @@ 2 :> 0),
   good |-> ev.refGood, name |-> szPlainQnVectorName]

(***************************************************************************)
(* Arithmetic of the corrections.                                          *)
(***************************************************************************)
\* a plausible slip: the correction is significant only strictly above 2.0
SignificantCorrection_Strict(XY, YX, eXY, eYX) ==
  LET num == (XY - YX) * (XY - YX)
      den == eXY * eXY + eYX * eYX
  IN  IF den = 0 THEN TRUE ELSE num > 4 * den

\* !(TMath::Sqrt((XY-YX)*(XY-YX)/(eXY*eXY+eYX*eYX)) < 2.0): with a null
\* denominator the quotient is infinite or not a number and the comparison
\* with 2.0 is false
SignificantCorrection(XY, YX, eXY, eYX) ==
  LET num == (XY - YX) * (XY - YX)
      den == eXY * eXY + eYX * eYX
  IN  IF den = 0 THEN TRUE ELSE ~(num < 4 * den)

\* the test of significance of the alignment correction
AlignmentSignificant(bin) ==
  SignificantCorrection(bin.XY, bin.YX, bin.eXY, bin.eYX)

\* TMath::ATan2(y, x) in quarter turns, for an angle on one of the axes
ATan2(y, x) ==
  CASE y = 0 /\ x >= 0 -> 0
    [] y > 0 /\ x = 0 -> 1
    [] y = 0 /\ x < 0 -> 2
    [] y < 0 /\ x = 0 -> -1

\* deltaPhi = - ATan2(XY-YX, XX+YY) * (1.0 / fHarmonicForAlignment), in quarter turns
DeltaPhi(bin) == (0 - ATan2(bin.XY - bin.YX, bin.XX + bin.YY)) \div fHarmonicForAlignment

\* TMath::Cos and TMath::Sin of n quarter turns
Cos(n) == CASE n % 4 = 0 -> 1 [] n % 4 = 1 -> 0 [] n % 4 = 2 -> -1 [] n % 4 = 3 -> 0
Sin(n) == CASE n % 4 = 0 -> 0 [] n % 4 = 1 -> 1 [] n % 4 = 2 -> 0 [] n % 4 = 3 -> -1

\* a plausible slip: the Y component is computed from the X component
\* already rotated
Rotate_InPlace(buffer, Qn, deltaPhi) ==
  LET rotatedQx == [h \in Harmonics |->
                      Qn.Qx[h] * Cos(h * deltaPhi) + Qn.Qy[h] * Sin(h * deltaPhi)]
  IN  [buffer EXCEPT
         !.Qx = rotatedQx,
         !.Qy = [h \in Harmonics |->
                   Qn.Qy[h] * Cos(h * deltaPhi) - rotatedQx[h] * Sin(h * deltaPhi)]]

\* the rotation of every harmonic of Qn by harmonic * deltaPhi, stored in buffer
Rotate(buffer, Qn, deltaPhi) ==
  [buffer EXCEPT
     !.Qx = [h \in Harmonics |-> Qn.Qx[h] * Cos(h * deltaPhi) + Qn.Qy[h] * Sin(h * deltaPhi)],
     !.Qy = [h \in Harmonics |-> Qn.Qy[h] * Cos(h * deltaPhi) - Qn.Qx[h] * Sin(h * deltaPhi)]]

\* a plausible slip: the widths are applied although the width equalization
\* is not asked for; the quotient by a null width, which is not a finite
\* number, is given as a null coordinate
Recenter_AlwaysEqualize(buffer, Qn, bin) ==
  [buffer EXCEPT
     !.Qx = [h \in Harmonics |->
               IF bin.eX[h] = 0 THEN 0 ELSE (Qn.Qx[h] - bin.X[h]) \div bin.eX[h]],
     !.Qy = [h \in Harmonics |->
               IF bin.eY[h] = 0 THEN 0 ELSE (Qn.Qy[h] - bin.Y[h]) \div bin.eY[h]]]

\* the recentering and optional width equalization of every harmonic of Qn
Recenter(buffer, Qn, bin) ==
  [buffer EXCEPT
     !.Qx = [h \in Harmonics |->
               (Qn.Qx[h] - bin.X[h]) \div (IF fApplyWidthEqualization THEN bin.eX[h] ELSE 1)],
     !.Qy = [h \in Harmonics |->
               (Qn.Qy[h] - bin.Y[h]) \div (IF fApplyWidthEqualization THEN bin.eY[h] ELSE 1)]]

(***************************************************************************)
(* The per-event processing of the correction steps.  Each operator gives  *)
(* the outcome of one call: the value returned, the current Qn vector of   *)
(* the configuration, the corrected Qn vector of the step, the bins of its *)
(* calibration histograms, and what the call did: updated (it called       *)
(* UpdateCurrentQnVector), filled (it filled the calibration histograms)   *)
(* and corrected (it computed new coordinates).                            *)
(***************************************************************************)
Untouched(ret, current, buffer, calibration) ==
  [ret |-> ret, current |-> current, buffer |-> buffer, calibration |-> calibration,
   updated |-> FALSE, filled |-> FALSE, corrected |-> FALSE, notValidated |-> FALSE]

\* the data collection of the recentering step
RecenteringCollect(out, current, bin) ==
  IF current.good
  THEN [out EXCEPT !.calibration = FillComponents(@, bin, current), !.filled = TRUE]
  ELSE out

\* a plausible slip: the corrected Qn vector is not marked bad when the
\* current Qn vector is bad
RecenteringApply_NoSetGood(out, current, input, bin) ==
  LET new == IF current.good
             THEN Recenter(SetQnVector(out.buffer, current, FALSE), current, input[bin])
             ELSE out.buffer
  IN  [out EXCEPT !.buffer = new,
                  !.current = UpdateCurrentQnVector(current, new),
                  !.updated = TRUE,
                  !.corrected = current.good,
                  !.ret = TRUE]

\* the application of the recentering step (case QCORRSTEP_apply)
RecenteringApply(out, current, input, bin) ==
  LET new == IF current.good
             THEN Recenter(SetQnVector(out.buffer, current, FALSE), current, input[bin])
             ELSE [out.buffer EXCEPT !.good = FALSE]
  IN  [out EXCEPT !.buffer = new,
                  !.current = UpdateCurrentQnVector(current, new),
                  !.updated = TRUE,
                  !.corrected = current.good,
                  !.ret = TRUE]

\* a plausible slip: the case QCORRSTEP_calibration falls through to the
\* application of the correction
RecenteringProcess_CalibrationFallsThrough(state, current, buffer, input, calibration, bin) ==
  LET nothing == Untouched(TRUE, current, buffer, calibration)
  IN  CASE state \in {QCORRSTEP_calibration, QCORRSTEP_applyCollect} ->
             RecenteringApply(RecenteringCollect(nothing, current, bin), current, input, bin)
        [] state = QCORRSTEP_apply ->
             RecenteringApply(nothing, current, input, bin)
        [] OTHER -> nothing

\* a plausible slip: in the case QCORRSTEP_applyCollect the correction is
\* applied first and the data are collected from the corrected Qn vector
RecenteringProcess_ApplyThenCollect(state, current, buffer, input, calibration, bin) ==
  LET nothing == Untouched(TRUE, current, buffer, calibration)
      applied == RecenteringApply(nothing, current, input, bin)
  IN  CASE state = QCORRSTEP_calibration ->
             [RecenteringCollect(nothing, current, bin) EXCEPT !.ret = FALSE]
        [] state = QCORRSTEP_applyCollect ->
             RecenteringCollect(applied, applied.current, bin)
        [] state = QCORRSTEP_apply -> applied
        [] OTHER -> nothing

\* a plausible slip: the correction applied is read from the calibration
\* histograms the step is filling, not from its input histograms
RecenteringProcess_AppliesCalibration(state, current, buffer, input, calibration, bin) ==
  LET nothing == Untouched(TRUE, current, buffer, calibration)
      collected == RecenteringCollect(nothing, current, bin)
  IN  CASE state = QCORRSTEP_calibration -> [collected EXCEPT !.ret = FALSE]
        [] state = QCORRSTEP_applyCollect ->
             RecenteringApply(collected, current, collected.calibration, bin)
        [] state = QCORRSTEP_apply ->
             RecenteringApply(nothing, current, calibration, bin)
        [] OTHER -> nothing

\* QnCorrectionsQnVectorRecentering::Process
RecenteringProcess(state, current, buffer, input, calibration, bin) ==
  LET nothing == Untouched(TRUE, current, buffer, calibration)
  IN  CASE state = QCORRSTEP_calibration ->
             [RecenteringCollect(nothing, current, bin) EXCEPT !.ret = FALSE]
        [] state = QCORRSTEP_applyCollect ->
             RecenteringApply(RecenteringCollect(nothing, current, bin), current, input, bin)
        [] state = QCORRSTEP_apply ->
             RecenteringApply(nothing, current, input, bin)
        [] OTHER -> nothing

\* a plausible slip: the quality of the reference Qn vector is not checked
CorrelationCollect_IgnoreReference(out, Qn, reference, bin) ==
  IF Qn.good
  THEN [out EXCEPT
          !.calibration = FillCorrelationComponents(@, bin,
             Qn.Qx[fHarmonicForAlignment] * reference.Qx[fHarmonicForAlignment],
             Qn.Qx[fHarmonicForAlignment] * reference.Qy[fHarmonicForAlignment],
             Qn.Qy[fHarmonicForAlignment] * reference.Qx[fHarmonicForAlignment],
             Qn.Qy[fHarmonicForAlignment] * reference.Qy[fHarmonicForAlignment]),
          !.filled = TRUE]
  ELSE out

\* a plausible slip: the XY and YX products are exchanged
CorrelationCollect_SwappedXY(out, Qn, reference, bin) ==
  IF Qn.good /\ reference.good
  THEN [out EXCEPT
          !.calibration = FillCorrelationComponents(@, bin,
             Qn.Qx[fHarmonicForAlignment] * reference.Qx[fHarmonicForAlignment],
             Qn.Qy[fHarmonicForAlignment] * reference.Qx[fHarmonicForAlignment],
             Qn.Qx[fHarmonicForAlignment] * reference.Qy[fHarmonicForAlignment],
             Qn.Qy[fHarmonicForAlignment] * reference.Qy[fHarmonicForAlignment]),
          !.filled = TRUE]
  ELSE out

\* the data collection of the alignment and twist and rescale steps
CorrelationCollect(out, Qn, reference, bin) ==
  IF Qn.good /\ reference.good
  THEN [out EXCEPT
          !.calibration = FillCorrelationComponents(@, bin,
             Qn.Qx[fHarmonicForAlignment] * reference.Qx[fHarmonicForAlignment],
             Qn.Qx[fHarmonicForAlignment] * reference.Qy[fHarmonicForAlignment],
             Qn.Qy[fHarmonicForAlignment] * reference.Qx[fHarmonicForAlignment],
             Qn.Qy[fHarmonicForAlignment] * reference.Qy[fHarmonicForAlignment]),
          !.filled = TRUE]
  ELSE out

\* a plausible slip: the alignment is applied whatever the quality of the
\* current Qn vector
AlignmentApply_NoQualityCheck(out, current, input, bin) ==
  LET copy == SetQnVector(out.buffer, current, FALSE)
      new == IF BinContentValidated(input, bin) /\ AlignmentSignificant(input[bin])
             THEN Rotate(copy, current, DeltaPhi(input[bin]))
             ELSE copy
  IN  [out EXCEPT !.buffer = new,
                  !.current = UpdateCurrentQnVector(current, new),
                  !.updated = TRUE,
                  !.corrected = BinContentValidated(input, bin) /\ AlignmentSignificant(input[bin]),
                  !.ret = TRUE]

\* a plausible slip: the correction is read from the bin without checking
\* that its content is validated
AlignmentApply_NoValidation(out, current, input, bin) ==
  LET copy == SetQnVector(out.buffer, current, FALSE)
      rotate == current.good /\ AlignmentSignificant(input[bin])
      new == IF ~current.good THEN [out.buffer EXCEPT !.good = FALSE]
             ELSE IF rotate THEN Rotate(copy, current, DeltaPhi(input[bin]))
             ELSE copy
  IN  [out EXCEPT !.buffer = new,
                  !.current = UpdateCurrentQnVector(current, new),
                  !.updated = TRUE,
                  !.corrected = rotate,
                  !.ret = TRUE]

\* a plausible slip: the corrected Qn vector is not published when the
\* current Qn vector is bad
AlignmentApply_NoPublishOnBad(out, current, input, bin) ==
  LET copy == SetQnVector(out.buffer, current, FALSE)
      rotate == current.good /\ BinContentValidated(input, bin)
                  /\ AlignmentSignificant(input[bin])
      new == IF ~current.good THEN [out.buffer EXCEPT !.good = FALSE]
             ELSE IF rotate THEN Rotate(copy, current, DeltaPhi(input[bin]))
             ELSE copy
  IN  [out EXCEPT !.buffer = new,
                  !.current = IF current.good THEN UpdateCurrentQnVector(current, new)
                              ELSE current,
                  !.updated = current.good,
                  !.corrected = rotate,
                  !.notValidated = current.good /\ ~BinContentValidated(input, bin),
                  !.ret = TRUE]

\* the application of the alignment rotation (case QCORRSTEP_apply), common
\* to the alignment and the twist and rescale steps
AlignmentApply(out, current, input, bin) ==
  LET copy == SetQnVector(out.buffer, current, FALSE)
      rotate == current.good /\ BinContentValidated(input, bin)
                  /\ AlignmentSignificant(input[bin])
      new == IF ~current.good THEN [out.buffer EXCEPT !.good = FALSE]
             ELSE IF rotate THEN Rotate(copy, current, DeltaPhi(input[bin]))
             ELSE copy
  IN  [out EXCEPT !.buffer = new,
                  !.current = UpdateCurrentQnVector(current, new),
                  !.updated = TRUE,
                  !.corrected = rotate,
                  !.notValidated = current.good /\ ~BinContentValidated(input, bin),
                  !.ret = TRUE]

\* a plausible slip: the data are collected in the case QCORRSTEP_apply too
AlignmentProcess_CollectWhenApplying(state, current, reference, buffer, input, calibration, bin) ==
  LET nothing == Untouched(TRUE, current, buffer, calibration)
  IN  CASE state = QCORRSTEP_calibration ->
             [CorrelationCollect(nothing, current, reference, bin) EXCEPT !.ret = FALSE]
        [] state \in {QCORRSTEP_applyCollect, QCORRSTEP_apply} ->
             AlignmentApply(CorrelationCollect(nothing, current, reference, bin),
                            current, input, bin)
        [] OTHER -> nothing

\* QnCorrectionsQnVectorAlignment::Process
AlignmentProcess(state, current, reference, buffer, input, calibration, bin) ==
  LET nothing == Untouched(TRUE, current, buffer, calibration)
  IN  CASE state = QCORRSTEP_calibration ->
             [CorrelationCollect(nothing, current, reference, bin) EXCEPT !.ret = FALSE]
        [] state = QCORRSTEP_applyCollect ->
             AlignmentApply(CorrelationCollect(nothing, current, reference, bin),
                            current, input, bin)
        [] state = QCORRSTEP_apply ->
             AlignmentApply(nothing, current, input, bin)
        [] OTHER -> nothing

\* QnCorrectionsQnVectorTwistAndRescale::ProcessCorrections
TwistAndRescaleProcessCorrections(state, current, buffer, input, calibration, bin) ==
  LET nothing == Untouched(TRUE, current, buffer, calibration)
  IN  CASE state = QCORRSTEP_calibration -> [nothing EXCEPT !.ret = FALSE]
        [] state \in {QCORRSTEP_applyCollect, QCORRSTEP_apply} ->
             AlignmentApply(nothing, current, input, bin)
        [] OTHER -> nothing

\* a plausible slip: the data are collected from the current Qn vector of the
\* configuration, as the alignment step does
TwistAndRescaleProcessDataCollection_FromCurrent(state, current, inputQn, reference, buffer, calibration, bin) ==
  LET nothing == Untouched(TRUE, current, buffer, calibration)
  IN  CASE state = QCORRSTEP_calibration ->
             [CorrelationCollect(nothing, current, reference, bin) EXCEPT !.ret = FALSE]
        [] state = QCORRSTEP_applyCollect ->
             CorrelationCollect(nothing, current, reference, bin)
        [] OTHER -> nothing

\* QnCorrectionsQnVectorTwistAndRescale::ProcessDataCollection
TwistAndRescaleProcessDataCollection(state, current, inputQn, reference, buffer, calibration, bin) ==
  LET nothing == Untouched(TRUE, current, buffer, calibration)
  IN  CASE state = QCORRSTEP_calibration ->
             [CorrelationCollect(nothing, inputQn, reference, bin) EXCEPT !.ret = FALSE]
        [] state = QCORRSTEP_applyCollect ->
             CorrelationCollect(nothing, inputQn, reference, bin)
        [] OTHER -> nothing

\* a plausible slip: the entry is counted whether the bin is validated or not
FillQANotValidated_EveryEvent(qa, out, bin) ==
  IF out.updated /\ qa.created
  THEN [qa EXCEPT !.counts[bin] = @ + 1]
  ELSE qa

\* the not validated entries QA histogram of the twist and rescale step:
\* filled when it exists and the bin of the event is not validated
FillQANotValidated(qa, out, bin) ==
  IF out.notValidated /\ qa.created
  THEN [qa EXCEPT !.counts[bin] = @ + 1]
  ELSE qa

\* a plausible slip: the attach succeeds and the state is not changed
AttachInput_NoTransition(state, input, list, k) ==
  IF AttachHistograms(list, k)
  THEN [ret |-> TRUE, state |-> state,
        input |-> [input EXCEPT !.attached = TRUE, !.bins = list[k].bins]]
  ELSE [ret |-> FALSE, state |-> state, input |-> input]

\* a plausible slip: the state is changed whatever the outcome of the attach
AttachInput_AlwaysTransition(state, input, list, k) ==
  IF AttachHistograms(list, k)
  THEN [ret |-> TRUE, state |-> QCORRSTEP_applyCollect,
        input |-> [input EXCEPT !.attached = TRUE, !.bins = list[k].bins]]
  ELSE [ret |-> FALSE, state |-> QCORRSTEP_applyCollect, input |-> input]

\* QnCorrectionsQnVectorRecentering::AttachInput, QnCorrectionsQnVectorAlignment::
\* AttachInput, QnCorrectionsQnVectorTwistAndRescale::AttachInput: the value
\* returned, the state and the input histograms of the step after the call
AttachInput(state, input, list, k) ==
  IF AttachHistograms(list, k)
  THEN [ret |-> TRUE, state |-> QCORRSTEP_applyCollect,
        input |-> [input EXCEPT !.attached = TRUE, !.bins = list[k].bins]]
  ELSE [ret |-> FALSE, state |-> state, input |-> input]

\* QnCorrectionsQnVectorAlignment::ReportUsage and
\* QnCorrectionsQnVectorTwistAndRescale::ReportUsage: the value returned and
\* the two lists after the call
ReportUsage(state, k, calibrationList, applyList) ==
  CASE state = QCORRSTEP_calibration ->
         [ret |-> FALSE,
          calibrationList |-> Append(calibrationList, szCorrectionName(k)),
          applyList |-> applyList]
    [] state = QCORRSTEP_applyCollect ->
         [ret |-> TRUE,
          calibrationList |-> Append(calibrationList, szCorrectionName(k)),
          applyList |-> Append(applyList, szCorrectionName(k))]
    [] state = QCORRSTEP_apply ->
         [ret |-> TRUE,
          calibrationList |-> calibrationList,
          applyList |-> Append(applyList, szCorrectionName(k))]
    [] OTHER ->
         [ret |-> TRUE, calibrationList |-> calibrationList, applyList |-> applyList]

\* GetPreviousCorrectedQnVector: the corrected Qn vector of the step stored
\* before k, the plain Qn vector when k is the first one
GetPreviousCorrectedQnVector(list, k) ==
  LET i == CHOOSE j \in 1..Len(list) : list[j] = k
  IN  IF i = 1 THEN "plain" ELSE list[i - 1]

(***************************************************************************)
(* The setup of the framework: the managers and the detector               *)
(* configurations registered in them, and the location of the reference    *)
(* detector configuration of the alignment and twist and rescale steps.    *)
(***************************************************************************)
NoManager == "none"
Managers == {"instance", "other"}

\* QnCorrectionsManager::GetInstance()
GetInstance == "instance"

ConfigurationNames == {"A", "B"}

\* the steps which need a reference detector configuration
RefSteps == {"Alignment", "TwistAndRescale"}

NULL == [manager |-> NoManager, name |-> ""]

\* FindDetectorConfiguration of a manager: the detector configuration
\* registered in it with that name, NULL when there is none
FindDetectorConfiguration(registry, manager, name) ==
  IF name \in registry[manager] THEN [manager |-> manager, name |-> name] ELSE NULL

\* the location of the reference detector configuration once the manager is
\* known: the name is looked for in the manager of the owner configuration;
\* the pointer stored is taken from QnCorrectionsManager::GetInstance() by the
\* alignment step and from the manager of the owner configuration by the
\* twist and rescale step; a fatal error is raised when the name is not found
LocateReferenceConfiguration(s, registry, manager, name, reference) ==
  IF FindDetectorConfiguration(registry, manager, name) # NULL
  THEN [name |-> name,
        reference |-> FindDetectorConfiguration(registry,
                         IF s = "Alignment" THEN GetInstance ELSE manager, name),
        fatal |-> FALSE]
  ELSE [name |-> name, reference |-> reference, fatal |-> TRUE]

\* SetReferenceConfigurationForAlignment of a step owned by a detector
\* configuration: the name is stored, and the reference is located when the
\* owner is already attached to the framework manager
SetReferenceConfigurationForAlignment(s, registry, manager, name, reference) ==
  IF manager # NoManager
  THEN LocateReferenceConfiguration(s, registry, manager, name, reference)
  ELSE [name |-> name, reference |-> reference, fatal |-> FALSE]

\* AttachedToFrameworkManager: the reference is located when its name was stored
AttachedToFrameworkManager(s, registry, manager, name, reference) ==
  IF name # ""
  THEN LocateReferenceConfiguration(s, registry, manager, name, reference)
  ELSE [name |-> name, reference |-> reference, fatal |-> FALSE]

(***************************************************************************)
(* The harmonics of the Qn vectors: the set of the active harmonics of the *)
(* Qn vectors of the detector configuration, of those of its reference,    *)
(* and of the corrected Qn vector of each step once created.               *)
(***************************************************************************)
HarmonicSets == (SUBSET (1..MaxHarmonic)) \ {{}}

HarmonicMaps(own, reference) ==
  [q \in {"configuration", "reference"} \cup Kinds |->
     CASE q = "configuration" -> own
       [] q = "reference" -> reference
       [] OTHER -> {}]

\* QnCorrectionsDetectorConfigurationBase::ActivateHarmonic
ActivateHarmonic(harmonics, harmonic) == harmonics \cup {harmonic}

\* GetNoOfHarmonics
GetNoOfHarmonics(harmonics) == Cardinality(harmonics)

\* GetHarmonicMap: the active harmonics stored in ascending order
GetHarmonicMap(harmonics) ==
  [i \in 1..Cardinality(harmonics) |->
     CHOOSE h \in harmonics : Cardinality({g \in harmonics : g < h}) = i - 1]

\* new QnCorrectionsQnVector(name, nNoOfHarmonics, harmonicsMap): the first
\* nNoOfHarmonics entries of the map are its harmonics
NewQnVectorHarmonics(nNoOfHarmonics, harmonicsMap) ==
  {harmonicsMap[i] : i \in 1..nNoOfHarmonics}

\* CreateSupportDataStructures of the step k: the number of harmonics is
\* read and the array allocated, the alignment and the twist and rescale
\* steps activate the alignment harmonic in both configurations, then the
\* harmonic map is stored in the array and the corrected Qn vector created
\* with the number read; the array is overrun when a harmonic was activated
StepCreateSupportDataStructures(k, map) ==
  LET nNoOfHarmonics == GetNoOfHarmonics(map["configuration"])
      activates == k \in RefSteps
      own == IF activates
             THEN ActivateHarmonic(map["configuration"], fHarmonicForAlignment)
             ELSE map["configuration"]
      reference == IF activates
                   THEN ActivateHarmonic(map["reference"], fHarmonicForAlignment)
                   ELSE map["reference"]
      harmonicsMap == GetHarmonicMap(own)
  IN  [configuration |-> own, reference |-> reference,
       corrected |-> NewQnVectorHarmonics(nNoOfHarmonics, harmonicsMap),
       overrun |-> Len(harmonicsMap) > nNoOfHarmonics]

(***************************************************************************)
(* The detector and its detector configurations, and the requests the      *)
(* detector and the detector configuration transmit to their members.      *)
(***************************************************************************)
\* the detector the model follows, and another one
Detector == "D1"
Detectors == {"D1", "D2"}

\* the detector configurations a detector can be given: a name and the
\* detector which owns the configuration
Configurations == [name : ConfigurationNames, detector : Detectors]

\* the name of the detector configuration whose corrections the model follows;
\* the other detector configurations have no correction steps
ConcreteName == "A"

\* TList::FindObject(name) on the list of detector configurations
FindObject(configurations, name) ==
  \E i \in 1..Len(configurations) : configurations[i].name = name

\* a plausible slip: the name of the configuration is not looked for
AddDetectorConfiguration_NoNameCheck(detector, configurations, c) ==
  IF detector # c.detector
  THEN [configurations |-> configurations, fatal |-> TRUE]
  ELSE [configurations |-> Append(configurations, c), fatal |-> FALSE]

\* QnCorrectionsDetector::AddDetectorConfiguration: the list of the detector
\* after the call and whether a fatal error was raised
AddDetectorConfiguration(detector, configurations, c) ==
  IF detector # c.detector
  THEN [configurations |-> configurations, fatal |-> TRUE]
  ELSE IF FindObject(configurations, c.name)
       THEN [configurations |-> configurations, fatal |-> TRUE]
       ELSE [configurations |-> Append(configurations, c), fatal |-> FALSE]

\* what a transmitted request has done so far: the value of retValue, the
\* members called and what each returned, and the state and the histograms
\* of the correction steps; undefined when a step was asked to attach
\* histograms it has not created
TransmitStart(state, input, calibration) ==
  [ret |-> FALSE, called |-> <<>>, rets |-> <<>>, undefined |-> FALSE,
   state |-> state, input |-> input, calibration |-> calibration,
   inputData |-> <<>>]

\* retValue = retValue || (fQnVectorCorrections.At(ixCorrection)->AttachInput(list)):
\* the step is not called once retValue is kTRUE
RECURSIVE AttachCorrectionInputsLoop(_, _, _, _)
AttachCorrectionInputsLoop(corrections, ix, list, acc) ==
  IF ix > Len(corrections) \/ acc.undefined
  THEN acc
  ELSE LET k == corrections[ix]
           r == AttachInput(acc.state[k], acc.input[k], list, k)
       IN  IF acc.ret
           THEN AttachCorrectionInputsLoop(corrections, ix + 1, list, acc)
           ELSE IF ~acc.input[k].created
                THEN [acc EXCEPT !.undefined = TRUE, !.called = Append(@, k)]
                ELSE AttachCorrectionInputsLoop(corrections, ix + 1, list,
                       [acc EXCEPT !.ret = r.ret,
                                   !.called = Append(@, k),
                                   !.rets = Append(@, r.ret),
                                   !.state[k] = r.state,
                                   !.input[k] = r.input])

\* QnCorrectionsDetectorConfigurationBase::AttachCorrectionInputs
ConfigurationAttachCorrectionInputs(corrections, list, state, input, calibration) ==
  AttachCorrectionInputsLoop(corrections, 1, list, TransmitStart(state, input, calibration))

\* retValue = retValue || (fQnVectorCorrections.At(ixCorrection)->
\* CreateSupportHistograms(list)): the step, which creates its input and
\* calibration histograms and returns kTRUE, is not called once retValue is kTRUE
RECURSIVE CreateSupportHistogramsLoop(_, _, _)
CreateSupportHistogramsLoop(corrections, ix, acc) ==
  IF ix > Len(corrections)
  THEN acc
  ELSE LET k == corrections[ix]
       IN  IF acc.ret
           THEN CreateSupportHistogramsLoop(corrections, ix + 1, acc)
           ELSE CreateSupportHistogramsLoop(corrections, ix + 1,
                  [acc EXCEPT !.ret = TRUE,
                              !.called = Append(@, k),
                              !.rets = Append(@, TRUE),
                              !.input[k] = [NoHistograms(k) EXCEPT !.created = TRUE],
                              !.calibration[k] = [NoHistograms(k) EXCEPT !.created = TRUE]])

\* QnCorrectionsDetectorConfigurationBase::CreateSupportHistograms
ConfigurationCreateSupportHistograms(corrections, state, input, calibration) ==
  CreateSupportHistogramsLoop(corrections, 1, TransmitStart(state, input, calibration))

\* what the input data corrections of a channelized detector configuration
\* return to a request, in the order of their list
InputDataOutcomes == {<<>>, <<FALSE>>, <<TRUE>>, <<FALSE, TRUE>>}

\* retValue = retValue || (fInputDataCorrections.At(ixCorrection)->...(list))
RECURSIVE InputDataCorrectionsLoop(_, _, _)
InputDataCorrectionsLoop(outcomes, ix, retValue) ==
  IF ix > Len(outcomes)
  THEN retValue
  ELSE InputDataCorrectionsLoop(outcomes, ix + 1, retValue \/ outcomes[ix])

\* QnCorrectionsChannelDetectorConfiguration::CreateSupportHistograms: the
\* request goes to the base class only if retValue is kTRUE, and what the
\* base class returns is then returned
ChannelCreateSupportHistograms(outcomes, corrections, state, input, calibration) ==
  IF InputDataCorrectionsLoop(outcomes, 1, FALSE)
  THEN [ConfigurationCreateSupportHistograms(corrections, state, input, calibration)
          EXCEPT !.inputData = outcomes]
  ELSE [TransmitStart(state, input, calibration) EXCEPT !.inputData = outcomes]

\* QnCorrectionsChannelDetectorConfiguration::AttachCorrectionInputs: the
\* request goes to the base class only if retValue is kTRUE, and retValue
\* is returned
ChannelAttachCorrectionInputs(outcomes, corrections, list, state, input, calibration) ==
  IF InputDataCorrectionsLoop(outcomes, 1, FALSE)
  THEN [ConfigurationAttachCorrectionInputs(corrections, list, state, input, calibration)
          EXCEPT !.inputData = outcomes, !.ret = TRUE]
  ELSE [TransmitStart(state, input, calibration) EXCEPT !.inputData = outcomes]

\* the request op transmitted to the detector configuration c
TransmitToConfiguration(op, c, corrections, list, acc) ==
  IF c.name # ConcreteName
  THEN TransmitStart(acc.state, acc.input, acc.calibration)
  ELSE IF op = "AttachCorrectionInputs"
       THEN ConfigurationAttachCorrectionInputs(corrections, list,
                                                acc.state, acc.input, acc.calibration)
       ELSE ConfigurationCreateSupportHistograms(corrections,
                                                 acc.state, acc.input, acc.calibration)

\* retValue = retValue || (fConfigurations.At(ixConfiguration)->...(list)):
\* the detector configuration is not called once retValue is kTRUE
RECURSIVE DetectorTransmitLoop(_, _, _, _, _, _)
DetectorTransmitLoop(op, configurations, ix, corrections, list, acc) ==
  IF ix > Len(configurations) \/ acc.undefined
  THEN acc
  ELSE LET c == configurations[ix]
           r == TransmitToConfiguration(op, c, corrections, list, acc)
       IN  IF acc.ret
           THEN DetectorTransmitLoop(op, configurations, ix + 1, corrections, list, acc)
           ELSE DetectorTransmitLoop(op, configurations, ix + 1, corrections, list,
                  [acc EXCEPT !.ret = r.ret,
                              !.called = Append(@, c.name),
                              !.rets = Append(@, r.ret),
                              !.undefined = r.undefined,
                              !.state = r.state,
                              !.input = r.input,
                              !.calibration = r.calibration])

\* QnCorrectionsDetector::AttachCorrectionInputs
DetectorAttachCorrectionInputs(configurations, corrections, list, state, input, calibration) ==
  DetectorTransmitLoop("AttachCorrectionInputs", configurations, 1, corrections, list, TransmitStart(state, input, calibration))

\* QnCorrectionsDetector::CreateSupportHistograms
DetectorCreateSupportHistograms(configurations, corrections, state, input, calibration) ==
  DetectorTransmitLoop("CreateSupportHistograms", configurations, 1, corrections, <<>>, TransmitStart(state, input, calibration))

(***************************************************************************)
(* The state.                                                              *)
(***************************************************************************)
VARIABLES
  fQnVectorCorrections,    \* the ordered set of corrections of the configuration
  fState,                  \* the state of each correction step
  fPlainQnVector,          \* the plain Qn vector of the configuration
  fCorrectedQnVector,      \* the current Qn vector of the configuration
  fReferenceQnVector,      \* the current Qn vector of the reference configuration
  fSupportDataStructures,  \* the steps whose corrected Qn vector is created
  fStepQnVector,           \* the corrected Qn vector of each correction step
  fInputQnVector,          \* the input Qn vector of the twist and rescale step
  fInputHistograms,        \* the input histograms of each correction step
  fCalibrationHistograms,  \* the calibration histograms of each correction step
  fQANotValidatedBin,      \* the not validated entries QA histogram
  variableContainer,       \* the event class bin of the event being processed
  pc,                      \* where the run is
  ixCorrection,            \* the position in the set of corrections
  nEvents,                 \* the number of events processed
  calls,                   \* the calls to the steps during the current event
  attach,                  \* the last AttachInput call
  fCorrectionsManager,     \* the framework manager the configuration is attached to
  fRegistry,               \* the configuration names registered in each manager
  fDetectorConfigurationForAlignmentName,  \* the reference name stored in each step
  fDetectorConfigurationForAlignment,      \* the reference located by each step
  fConfigurations,         \* the detector configurations of the detector
  fatal,                   \* QnCorrectionsFatal was raised: the run is aborted
  undefined,               \* a null pointer was dereferenced, an array overrun
  transmit,                \* the last request transmitted to the steps
  usage,                   \* the last ReportUsage call
  fHarmonicMap             \* the active harmonics of the Qn vectors

vars ==
  <<fQnVectorCorrections, fState, fPlainQnVector, fCorrectedQnVector,
    fReferenceQnVector, fSupportDataStructures, fStepQnVector, fInputQnVector,
    fInputHistograms, fCalibrationHistograms, fQANotValidatedBin,
    variableContainer, pc, ixCorrection, nEvents, calls, attach,
    fCorrectionsManager, fRegistry, fDetectorConfigurationForAlignmentName,
    fDetectorConfigurationForAlignment, fConfigurations, fatal, undefined, transmit,
    usage, fHarmonicMap>>

\* the state of the event processing, which the setup of the framework leaves alone
runVars ==
  <<fPlainQnVector, fCorrectedQnVector, fReferenceQnVector, fStepQnVector,
    fInputQnVector, fCalibrationHistograms, fQANotValidatedBin,
    variableContainer, nEvents, calls, attach>>

\* the state of the setup of the framework, which the event processing leaves alone
setupVars ==
  <<fCorrectionsManager, fRegistry, fDetectorConfigurationForAlignmentName,
    fDetectorConfigurationForAlignment, fConfigurations, fatal, undefined, transmit>>

NoTransmit ==
  [op |-> "none", level |-> "none", valid |-> FALSE, all |-> <<>>,
   called |-> <<>>, rets |-> <<>>, ret |-> FALSE, inputData |-> <<>>]

NoUsage ==
  [step |-> "none", state |-> QCORRSTEP_calibration, ret |-> FALSE,
   calibrationList |-> <<>>, applyList |-> <<>>]

\* neither a fatal error nor a null pointer access has stopped the run
Running == ~fatal /\ ~undefined

NoAttach == [step |-> "none", ret |-> FALSE, attached |-> FALSE,
             before |-> QCORRSTEP_calibration]

InList(k) == \E i \in 1..Len(fQnVectorCorrections) : fQnVectorCorrections[i] = k

\* the detector configuration after its construction
Constructed ==
  /\ fQnVectorCorrections = <<>>
  /\ fState = [k \in Kinds |-> QCORRSTEP_calibration]
  /\ fPlainQnVector = ResetQnVector(szPlainQnVectorName)
  /\ fCorrectedQnVector = ResetQnVector(szPlainQnVectorName)
  /\ fReferenceQnVector = ResetQnVector(szPlainQnVectorName)
  /\ fSupportDataStructures = {}
  /\ fStepQnVector = [k \in Kinds |-> ResetQnVector(szCorrectedQnVectorName(k))]
  /\ fInputQnVector = "plain"
  /\ fInputHistograms = [k \in Kinds |-> NoHistograms(k)]
  /\ fCalibrationHistograms = [k \in Kinds |-> NoHistograms(k)]
  /\ fQANotValidatedBin = [created |-> FALSE, counts |-> [b \in Bins |-> 0]]
  /\ variableContainer = 1
  /\ pc = "config"
  /\ ixCorrection = 1
  /\ nEvents = 0
  /\ calls = <<>>
  /\ attach = NoAttach
  /\ fConfigurations = <<>>
  /\ fatal = FALSE
  /\ undefined = FALSE
  /\ transmit = NoTransmit
  /\ usage = NoUsage

\* the harmonics the event processing is modelled with are those the
\* detector configuration and its reference were constructed with
DefaultHarmonics == fHarmonicMap = HarmonicMaps(Harmonics, Harmonics)

\* the detector configuration before it is attached to the framework manager
InitSetup ==
  /\ Constructed
  /\ DefaultHarmonics
  /\ fCorrectionsManager = NoManager
  /\ fRegistry = [m \in Managers |-> {}]
  /\ fDetectorConfigurationForAlignmentName = [s \in RefSteps |-> ""]
  /\ fDetectorConfigurationForAlignment = [s \in RefSteps |-> NULL]

\* the detector configuration attached to the framework manager, the
\* reference configuration of its steps being located
Init ==
  /\ Constructed
  /\ DefaultHarmonics
  /\ fCorrectionsManager = GetInstance
  /\ fRegistry = [m \in Managers |-> IF m = GetInstance THEN {"B"} ELSE {}]
  /\ fDetectorConfigurationForAlignmentName = [s \in RefSteps |-> "B"]
  /\ fDetectorConfigurationForAlignment =
       [s \in RefSteps |-> FindDetectorConfiguration(fRegistry, GetInstance, "B")]

(***************************************************************************)
(* Configuration: the corrections are added in any order, then the support *)
(* data structures and the support histograms of each step are created.    *)
(***************************************************************************)
AddCorrectionStep(k) ==
  /\ Running
  /\ pc = "config"
  /\ ~InList(k)
  /\ fQnVectorCorrections' = AddCorrectionOnQnVector(fQnVectorCorrections, k)
  /\ UNCHANGED <<usage, fHarmonicMap>>
  /\ UNCHANGED setupVars
  /\ UNCHANGED <<fState, fPlainQnVector, fCorrectedQnVector, fReferenceQnVector,
                 fSupportDataStructures, fStepQnVector, fInputQnVector,
                 fInputHistograms, fCalibrationHistograms, fQANotValidatedBin,
                 variableContainer, pc, ixCorrection, nEvents, calls, attach>>

\* a plausible slip: the steps left in the event are skipped when the
\* current Qn vector comes out bad
Advance_AbortOnBadQuality(stage, next) ==
  IF ixCorrection < Len(fQnVectorCorrections)
       /\ ~(stage = "chain" /\ ~fCorrectedQnVector'.good)
  THEN pc' = stage /\ ixCorrection' = ixCorrection + 1
  ELSE pc' = next /\ ixCorrection' = 1

\* the position after the step at ixCorrection: the next step, or the next stage
Advance(stage, next) ==
  IF ixCorrection < Len(fQnVectorCorrections)
  THEN pc' = stage /\ ixCorrection' = ixCorrection + 1
  ELSE pc' = next /\ ixCorrection' = 1

\* CreateSupportDataStructures of the step at ixCorrection, once the
\* configuration is attached to the framework manager; the alignment and the
\* twist and rescale steps access their reference detector configuration,
\* which is a null pointer access when it was not located
\* and activate the alignment harmonic; the array the harmonic map is
\* stored in was allocated before, and writing beyond its end either goes
\* unnoticed or corrupts the run
CreateSupportDataStructures ==
  /\ Running
  /\ fCorrectionsManager # NoManager
  /\ pc \in {"config", "structures"}
  /\ fQnVectorCorrections # <<>>
  /\ LET k == fQnVectorCorrections[ixCorrection]
         r == StepCreateSupportDataStructures(k, fHarmonicMap)
     IN  IF k \in RefSteps /\ fDetectorConfigurationForAlignment[k] = NULL
         THEN /\ undefined' = TRUE
              /\ UNCHANGED <<fSupportDataStructures, fStepQnVector, fInputQnVector,
                             pc, ixCorrection, fHarmonicMap>>
         ELSE \E corrupted \in (IF r.overrun THEN BOOLEAN ELSE {FALSE}) :
                /\ fHarmonicMap' =
                     [fHarmonicMap EXCEPT !["configuration"] = r.configuration,
                                          !["reference"] = r.reference,
                                          ![k] = IF corrupted THEN @ ELSE r.corrected]
                /\ IF corrupted
                   THEN /\ undefined' = TRUE
                        /\ UNCHANGED <<fSupportDataStructures, fStepQnVector,
                                       fInputQnVector, pc, ixCorrection>>
                   ELSE /\ fSupportDataStructures' = fSupportDataStructures \cup {k}
                        /\ fStepQnVector' =
                             [fStepQnVector EXCEPT ![k] = ResetQnVector(szCorrectedQnVectorName(k))]
                        /\ fInputQnVector' =
                             IF k = "TwistAndRescale"
                             THEN GetPreviousCorrectedQnVector(fQnVectorCorrections, k)
                             ELSE fInputQnVector
                        /\ Advance("structures", "histograms")
                        /\ UNCHANGED undefined
  /\ UNCHANGED usage
  /\ UNCHANGED <<fCorrectionsManager, fRegistry, fDetectorConfigurationForAlignmentName,
                 fDetectorConfigurationForAlignment, fConfigurations, fatal, transmit>>
  /\ UNCHANGED <<fQnVectorCorrections, fState, fPlainQnVector, fCorrectedQnVector,
                 fReferenceQnVector, fInputHistograms, fCalibrationHistograms,
                 fQANotValidatedBin, variableContainer, nEvents, calls, attach>>

\* CreateSupportHistograms of the step at ixCorrection
CreateSupportHistograms ==
  /\ Running
  /\ pc = "histograms"
  /\ LET k == fQnVectorCorrections[ixCorrection]
     IN  /\ fInputHistograms' =
              [fInputHistograms EXCEPT ![k] = [NoHistograms(k) EXCEPT !.created = TRUE]]
         /\ fCalibrationHistograms' =
              [fCalibrationHistograms EXCEPT ![k] = [NoHistograms(k) EXCEPT !.created = TRUE]]
  /\ Advance("histograms", "idle")
  /\ UNCHANGED <<usage, fHarmonicMap>>
  /\ UNCHANGED setupVars
  /\ UNCHANGED <<fQnVectorCorrections, fState, fPlainQnVector, fCorrectedQnVector,
                 fReferenceQnVector, fSupportDataStructures, fStepQnVector,
                 fInputQnVector, fQANotValidatedBin, variableContainer, nEvents,
                 calls, attach>>

\* CreateNveQAHistograms of the twist and rescale step, before the first event
CreateNveQAHistograms ==
  /\ pc = "idle"
  /\ nEvents = 0
  /\ InList("TwistAndRescale")
  /\ ~fQANotValidatedBin.created
  /\ fQANotValidatedBin' = [fQANotValidatedBin EXCEPT !.created = TRUE]
  /\ UNCHANGED <<usage, fHarmonicMap>>
  /\ UNCHANGED setupVars
  /\ UNCHANGED <<fQnVectorCorrections, fState, fPlainQnVector, fCorrectedQnVector,
                 fReferenceQnVector, fSupportDataStructures, fStepQnVector,
                 fInputQnVector, fInputHistograms, fCalibrationHistograms,
                 variableContainer, pc, ixCorrection, nEvents, calls, attach>>

\* AttachInput of step k with the calibration list of the run, once the
\* support histograms are created and before the first event
AttachInputStep(k, list) ==
  /\ pc = "idle"
  /\ nEvents = 0
  /\ InList(k)
  /\ LET r == AttachInput(fState[k], fInputHistograms[k], list, k)
     IN  /\ fState' = [fState EXCEPT ![k] = r.state]
         /\ fInputHistograms' = [fInputHistograms EXCEPT ![k] = r.input]
         /\ attach' = [step |-> k, ret |-> r.ret,
                       attached |-> AttachHistograms(list, k), before |-> fState[k]]
  /\ UNCHANGED <<usage, fHarmonicMap>>
  /\ UNCHANGED setupVars
  /\ UNCHANGED <<fQnVectorCorrections, fPlainQnVector, fCorrectedQnVector,
                 fReferenceQnVector, fSupportDataStructures, fStepQnVector,
                 fInputQnVector, fCalibrationHistograms, fQANotValidatedBin,
                 variableContainer, pc, ixCorrection, nEvents, calls>>

(***************************************************************************)
(* One event: the Qn vectors are built, each step of the set is processed  *)
(* in the order of the set, and the configuration is cleared.              *)
(***************************************************************************)
BuildQnVector(ev) ==
  /\ pc = "idle"
  /\ nEvents < MaxEvents
  /\ fPlainQnVector' = PlainQnVector(ev)
  /\ fCorrectedQnVector' = PlainQnVector(ev)
  /\ fReferenceQnVector' = ReferenceQnVector(ev)
  /\ variableContainer' = ev.bin
  /\ pc' = "chain"
  /\ ixCorrection' = 1
  /\ calls' = <<>>
  /\ attach' = NoAttach
  /\ UNCHANGED <<usage, fHarmonicMap>>
  /\ UNCHANGED setupVars
  /\ UNCHANGED <<fQnVectorCorrections, fState, fSupportDataStructures, fStepQnVector,
                 fInputQnVector, fInputHistograms, fCalibrationHistograms,
                 fQANotValidatedBin, nEvents>>

\* a plausible slip: what the step leaves in its corrected Qn vector is
\* written on the corrected Qn vector of every step
Called_WritesEveryStep(k, op, self, out) ==
  /\ calls' = Append(calls,
       [step |-> k, op |-> op, state |-> fState[k], in |-> fCorrectedQnVector,
        self |-> self, reference |-> fReferenceQnVector, before |-> fStepQnVector[k],
        calibration |-> fCalibrationHistograms[k].bins,
        input |-> fInputHistograms[k], bin |-> variableContainer, out |-> out])
  /\ fCorrectedQnVector' = out.current
  /\ fStepQnVector' = [j \in Kinds |-> [out.buffer EXCEPT !.name = fStepQnVector[j].name]]
  /\ fCalibrationHistograms' = [fCalibrationHistograms EXCEPT ![k].bins = out.calibration]

\* the record of a call to step k and the state it leaves
Called(k, op, self, out) ==
  /\ calls' = Append(calls,
       [step |-> k, op |-> op, state |-> fState[k], in |-> fCorrectedQnVector,
        self |-> self, reference |-> fReferenceQnVector, before |-> fStepQnVector[k],
        calibration |-> fCalibrationHistograms[k].bins,
        input |-> fInputHistograms[k], bin |-> variableContainer, out |-> out])
  /\ fCorrectedQnVector' = out.current
  /\ fStepQnVector' = [fStepQnVector EXCEPT ![k] = out.buffer]
  /\ fCalibrationHistograms' = [fCalibrationHistograms EXCEPT ![k].bins = out.calibration]

ProcessRecentering ==
  /\ pc = "chain"
  /\ fQnVectorCorrections[ixCorrection] = "Recentering"
  /\ Called("Recentering", "Process", fCorrectedQnVector,
       RecenteringProcess(fState["Recentering"], fCorrectedQnVector,
                          fStepQnVector["Recentering"],
                          fInputHistograms["Recentering"].bins,
                          fCalibrationHistograms["Recentering"].bins,
                          variableContainer))
  /\ Advance("chain", "done")
  /\ UNCHANGED <<usage, fHarmonicMap>>
  /\ UNCHANGED setupVars
  /\ UNCHANGED <<fQnVectorCorrections, fState, fPlainQnVector, fReferenceQnVector,
                 fSupportDataStructures, fInputQnVector, fInputHistograms,
                 fQANotValidatedBin, variableContainer, nEvents, attach>>

ProcessAlignment ==
  /\ pc = "chain"
  /\ fQnVectorCorrections[ixCorrection] = "Alignment"
  /\ Called("Alignment", "Process", fCorrectedQnVector,
       AlignmentProcess(fState["Alignment"], fCorrectedQnVector, fReferenceQnVector,
                        fStepQnVector["Alignment"],
                        fInputHistograms["Alignment"].bins,
                        fCalibrationHistograms["Alignment"].bins,
                        variableContainer))
  /\ Advance("chain", "done")
  /\ UNCHANGED <<usage, fHarmonicMap>>
  /\ UNCHANGED setupVars
  /\ UNCHANGED <<fQnVectorCorrections, fState, fPlainQnVector, fReferenceQnVector,
                 fSupportDataStructures, fInputQnVector, fInputHistograms,
                 fQANotValidatedBin, variableContainer, nEvents, attach>>

\* the Qn vector fInputQnVector points to
InputQnVector ==
  IF fInputQnVector = "plain" THEN fPlainQnVector ELSE fStepQnVector[fInputQnVector]

ProcessDataCollectionTwistAndRescale ==
  /\ pc = "chain"
  /\ fQnVectorCorrections[ixCorrection] = "TwistAndRescale"
  /\ Called("TwistAndRescale", "ProcessDataCollection", InputQnVector,
       TwistAndRescaleProcessDataCollection(fState["TwistAndRescale"],
            fCorrectedQnVector, InputQnVector, fReferenceQnVector,
            fStepQnVector["TwistAndRescale"],
            fCalibrationHistograms["TwistAndRescale"].bins, variableContainer))
  /\ pc' = "corrections"
  /\ UNCHANGED <<usage, fHarmonicMap>>
  /\ UNCHANGED setupVars
  /\ UNCHANGED <<fQnVectorCorrections, fState, fPlainQnVector, fReferenceQnVector,
                 fSupportDataStructures, fInputQnVector, fInputHistograms,
                 fQANotValidatedBin, variableContainer, ixCorrection, nEvents, attach>>

ProcessCorrectionsTwistAndRescale ==
  /\ pc = "corrections"
  /\ LET out == TwistAndRescaleProcessCorrections(fState["TwistAndRescale"],
                   fCorrectedQnVector, fStepQnVector["TwistAndRescale"],
                   fInputHistograms["TwistAndRescale"].bins,
                   fCalibrationHistograms["TwistAndRescale"].bins, variableContainer)
     IN  /\ Called("TwistAndRescale", "ProcessCorrections", fCorrectedQnVector, out)
         /\ fQANotValidatedBin' = FillQANotValidated(fQANotValidatedBin, out, variableContainer)
  /\ Advance("chain", "done")
  /\ UNCHANGED <<usage, fHarmonicMap>>
  /\ UNCHANGED setupVars
  /\ UNCHANGED <<fQnVectorCorrections, fState, fPlainQnVector, fReferenceQnVector,
                 fSupportDataStructures, fInputQnVector, fInputHistograms,
                 variableContainer, nEvents, attach>>

\* a plausible slip: the corrected Qn vectors of the steps are not reset
ClearConfiguration_KeepsStepQnVectors ==
  /\ pc = "done"
  /\ fPlainQnVector' = ResetQnVector(fPlainQnVector.name)
  /\ fCorrectedQnVector' = ResetQnVector(szPlainQnVectorName)
  /\ fReferenceQnVector' = ResetQnVector(szPlainQnVectorName)
  /\ pc' = "idle"
  /\ nEvents' = nEvents + 1
  /\ calls' = <<>>
  /\ UNCHANGED <<usage, fHarmonicMap>>
  /\ UNCHANGED setupVars
  /\ UNCHANGED <<fQnVectorCorrections, fState, fSupportDataStructures, fInputQnVector,
                 fInputHistograms, fCalibrationHistograms, fQANotValidatedBin,
                 fStepQnVector, variableContainer, ixCorrection, attach>>

\* ClearConfiguration: the Qn vectors are reset, ClearCorrectionStep of every step
ClearConfiguration ==
  /\ pc = "done"
  /\ fPlainQnVector' = ResetQnVector(fPlainQnVector.name)
  /\ fCorrectedQnVector' = ResetQnVector(szPlainQnVectorName)
  /\ fReferenceQnVector' = ResetQnVector(szPlainQnVectorName)
  /\ fStepQnVector' =
       [k \in Kinds |-> IF InList(k) THEN ResetQnVector(fStepQnVector[k].name)
                        ELSE fStepQnVector[k]]
  /\ pc' = "idle"
  /\ nEvents' = nEvents + 1
  /\ calls' = <<>>
  /\ UNCHANGED <<usage, fHarmonicMap>>
  /\ UNCHANGED setupVars
  /\ UNCHANGED <<fQnVectorCorrections, fState, fSupportDataStructures, fInputQnVector,
                 fInputHistograms, fCalibrationHistograms, fQANotValidatedBin,
                 variableContainer, ixCorrection, attach>>

(***************************************************************************)
(* State changes decided outside the steps, as part of the configuration   *)
(* of the run: an applied step stops collecting, a step becomes passive.   *)
(***************************************************************************)
DemoteToApplying(k) ==
  /\ pc = "idle"
  /\ nEvents = 0
  /\ InList(k)
  /\ fState[k] = QCORRSTEP_applyCollect
  /\ fState' = [fState EXCEPT ![k] = QCORRSTEP_apply]
  /\ attach' = NoAttach
  /\ UNCHANGED <<usage, fHarmonicMap>>
  /\ UNCHANGED setupVars
  /\ UNCHANGED <<fQnVectorCorrections, fPlainQnVector, fCorrectedQnVector,
                 fReferenceQnVector, fSupportDataStructures, fStepQnVector,
                 fInputQnVector, fInputHistograms, fCalibrationHistograms,
                 fQANotValidatedBin, variableContainer, pc, ixCorrection, nEvents,
                 calls>>

BecomePassive(k) ==
  /\ pc = "idle"
  /\ nEvents = 0
  /\ InList(k)
  /\ fState[k] = QCORRSTEP_calibration
  /\ fState' = [fState EXCEPT ![k] = QCORRSTEP_passive]
  /\ attach' = NoAttach
  /\ UNCHANGED <<usage, fHarmonicMap>>
  /\ UNCHANGED setupVars
  /\ UNCHANGED <<fQnVectorCorrections, fPlainQnVector, fCorrectedQnVector,
                 fReferenceQnVector, fSupportDataStructures, fStepQnVector,
                 fInputQnVector, fInputHistograms, fCalibrationHistograms,
                 fQANotValidatedBin, variableContainer, pc, ixCorrection, nEvents,
                 calls>>

Next ==
  \/ \E k \in Kinds : AddCorrectionStep(k)
  \/ CreateSupportDataStructures
  \/ CreateSupportHistograms
  \/ CreateNveQAHistograms
  \/ \E k \in Kinds, list \in CalibrationLists : AttachInputStep(k, list)
  \/ \E ev \in EventInputs : BuildQnVector(ev)
  \/ ProcessRecentering
  \/ ProcessAlignment
  \/ ProcessDataCollectionTwistAndRescale
  \/ ProcessCorrectionsTwistAndRescale
  \/ ClearConfiguration

Spec == Init /\ [][Next]_vars

NextExt ==
  \/ Next
  \/ \E k \in Kinds : DemoteToApplying(k)
  \/ \E k \in Kinds : BecomePassive(k)

SpecExt == Init /\ [][NextExt]_vars

(***************************************************************************)
(* The setup of the detector configuration: its correction steps are       *)
(* added, detector configurations are registered in the managers, the      *)
(* configuration is attached to one manager and the steps are told the     *)
(* name of their reference detector configuration, before or after that.   *)
(***************************************************************************)
\* a correction step is added before the configuration is attached
AddCorrectionBeforeAttach(k) ==
  /\ Running
  /\ fCorrectionsManager = NoManager
  /\ AddCorrectionStep(k)

\* a detector configuration is registered in a manager
RegisterConfiguration(m, n) ==
  /\ Running
  /\ pc = "config"
  /\ n \notin fRegistry[m]
  /\ fRegistry' = [fRegistry EXCEPT ![m] = @ \cup {n}]
  /\ UNCHANGED <<usage, fHarmonicMap>>
  /\ UNCHANGED <<fCorrectionsManager, fDetectorConfigurationForAlignmentName,
                 fDetectorConfigurationForAlignment, fConfigurations, fatal,
                 undefined, transmit>>
  /\ UNCHANGED runVars
  /\ UNCHANGED <<fQnVectorCorrections, fState, fSupportDataStructures,
                 fInputHistograms, pc, ixCorrection>>

\* SetReferenceConfigurationForAlignment of the step s owned by the configuration
SetReferenceConfiguration(s, n) ==
  /\ Running
  /\ pc = "config"
  /\ InList(s)
  /\ LET r == SetReferenceConfigurationForAlignment(s, fRegistry, fCorrectionsManager,
                 n, fDetectorConfigurationForAlignment[s])
     IN  /\ fDetectorConfigurationForAlignmentName' =
              [fDetectorConfigurationForAlignmentName EXCEPT ![s] = r.name]
         /\ fDetectorConfigurationForAlignment' =
              [fDetectorConfigurationForAlignment EXCEPT ![s] = r.reference]
         /\ fatal' = r.fatal
  /\ UNCHANGED <<usage, fHarmonicMap>>
  /\ UNCHANGED <<fCorrectionsManager, fRegistry, fConfigurations, undefined, transmit>>
  /\ UNCHANGED runVars
  /\ UNCHANGED <<fQnVectorCorrections, fState, fSupportDataStructures,
                 fInputHistograms, pc, ixCorrection>>

\* the configuration is attached to the manager m, and its correction steps
\* are notified in the order of the list, until a fatal error aborts the run
AttachCorrectionsManager(m) ==
  /\ Running
  /\ pc = "config"
  /\ fCorrectionsManager = NoManager
  /\ fCorrectionsManager' = m
  /\ LET notify(s) == AttachedToFrameworkManager(s, fRegistry, m,
                         fDetectorConfigurationForAlignmentName[s],
                         fDetectorConfigurationForAlignment[s])
         fatalAlignment == InList("Alignment") /\ notify("Alignment").fatal
         fatalTwist == InList("TwistAndRescale") /\ notify("TwistAndRescale").fatal
     IN  /\ fDetectorConfigurationForAlignment' =
              [s \in RefSteps |->
                 IF InList(s) /\ (s = "Alignment" \/ ~fatalAlignment)
                 THEN notify(s).reference
                 ELSE fDetectorConfigurationForAlignment[s]]
         /\ fatal' = (fatalAlignment \/ fatalTwist)
  /\ UNCHANGED <<usage, fHarmonicMap>>
  /\ UNCHANGED <<fRegistry, fDetectorConfigurationForAlignmentName, fConfigurations,
                 undefined, transmit>>
  /\ UNCHANGED runVars
  /\ UNCHANGED <<fQnVectorCorrections, fState, fSupportDataStructures,
                 fInputHistograms, pc, ixCorrection>>

NextSetup ==
  \/ \E k \in Kinds : AddCorrectionBeforeAttach(k)
  \/ \E m \in Managers, n \in ConfigurationNames : RegisterConfiguration(m, n)
  \/ \E s \in RefSteps, n \in ConfigurationNames : SetReferenceConfiguration(s, n)
  \/ \E m \in Managers : AttachCorrectionsManager(m)
  \/ CreateSupportDataStructures

SpecSetup == InitSetup /\ [][NextSetup]_vars

(***************************************************************************)
(* The detector: detector configurations are added to it, and the support  *)
(* histograms creation and the attachment of the correction inputs are     *)
(* requested from the detector configuration or from the detector.         *)
(***************************************************************************)
ConfigurationNamesOf(configurations) ==
  [i \in 1..Len(configurations) |-> configurations[i].name]

\* the list has the histograms of every correction step of the configuration
ValidForAllSteps(list) == \A k \in Kinds : InList(k) => AttachHistograms(list, k)

\* the outcome r of the request op at that level is stored
Transmitted(op, level, valid, all, r) ==
  /\ fState' = r.state
  /\ fInputHistograms' = r.input
  /\ fCalibrationHistograms' = r.calibration
  /\ undefined' = r.undefined
  /\ transmit' = [op |-> op, level |-> level, valid |-> valid, all |-> all,
                  called |-> r.called, rets |-> r.rets, ret |-> r.ret,
                  inputData |-> r.inputData]

\* AddDetectorConfiguration(c) on the detector
AddConfiguration(c) ==
  /\ Running
  /\ LET r == AddDetectorConfiguration(Detector, fConfigurations, c)
     IN  /\ fConfigurations' = r.configurations
         /\ fatal' = r.fatal
  /\ UNCHANGED <<usage, fHarmonicMap>>
  /\ UNCHANGED <<fCorrectionsManager, fRegistry, fDetectorConfigurationForAlignmentName,
                 fDetectorConfigurationForAlignment, undefined, transmit>>
  /\ UNCHANGED runVars
  /\ UNCHANGED <<fQnVectorCorrections, fState, fSupportDataStructures,
                 fInputHistograms, pc, ixCorrection>>

\* CreateSupportHistograms of the detector configuration, once the support
\* data structures are created
CreateSupportHistogramsOfConfiguration ==
  /\ Running
  /\ pc = "histograms"
  /\ ixCorrection = 1
  /\ Transmitted("CreateSupportHistograms", "configuration", TRUE, fQnVectorCorrections,
                 ConfigurationCreateSupportHistograms(fQnVectorCorrections,
                    fState, fInputHistograms, fCalibrationHistograms))
  /\ pc' = "idle"
  /\ UNCHANGED <<usage, fHarmonicMap>>
  /\ UNCHANGED <<fCorrectionsManager, fRegistry, fDetectorConfigurationForAlignmentName,
                 fDetectorConfigurationForAlignment, fConfigurations, fatal>>
  /\ UNCHANGED <<fQnVectorCorrections, fPlainQnVector, fCorrectedQnVector,
                 fReferenceQnVector, fSupportDataStructures, fStepQnVector,
                 fInputQnVector, fQANotValidatedBin, variableContainer,
                 ixCorrection, nEvents, calls, attach>>

\* CreateSupportHistograms of the detector
CreateSupportHistogramsOfDetector ==
  /\ Running
  /\ pc = "histograms"
  /\ ixCorrection = 1
  /\ LET r == DetectorCreateSupportHistograms(fConfigurations, fQnVectorCorrections,
                 fState, fInputHistograms, fCalibrationHistograms)
     IN  /\ Transmitted("CreateSupportHistograms", "detector", TRUE,
                        ConfigurationNamesOf(fConfigurations), r)
         /\ pc' = IF \E i \in 1..Len(r.called) : r.called[i] = ConcreteName
                  THEN "idle" ELSE pc
  /\ UNCHANGED <<usage, fHarmonicMap>>
  /\ UNCHANGED <<fCorrectionsManager, fRegistry, fDetectorConfigurationForAlignmentName,
                 fDetectorConfigurationForAlignment, fConfigurations, fatal>>
  /\ UNCHANGED <<fQnVectorCorrections, fPlainQnVector, fCorrectedQnVector,
                 fReferenceQnVector, fSupportDataStructures, fStepQnVector,
                 fInputQnVector, fQANotValidatedBin, variableContainer,
                 ixCorrection, nEvents, calls, attach>>

\* AttachCorrectionInputs(list) of the detector configuration, before the
\* first event
AttachCorrectionInputs(list) ==
  /\ Running
  /\ pc = "idle"
  /\ nEvents = 0
  /\ Transmitted("AttachCorrectionInputs", "configuration", ValidForAllSteps(list),
                 fQnVectorCorrections,
                 ConfigurationAttachCorrectionInputs(fQnVectorCorrections, list,
                    fState, fInputHistograms, fCalibrationHistograms))
  /\ UNCHANGED <<usage, fHarmonicMap>>
  /\ UNCHANGED <<fCorrectionsManager, fRegistry, fDetectorConfigurationForAlignmentName,
                 fDetectorConfigurationForAlignment, fConfigurations, fatal>>
  /\ UNCHANGED <<fQnVectorCorrections, fPlainQnVector, fCorrectedQnVector,
                 fReferenceQnVector, fSupportDataStructures, fStepQnVector,
                 fInputQnVector, fQANotValidatedBin, variableContainer, pc,
                 ixCorrection, nEvents, calls, attach>>

\* AttachCorrectionInputs(list) of the detector, before the first event
AttachCorrectionInputsOfDetector(list) ==
  /\ Running
  /\ pc = "idle"
  /\ nEvents = 0
  /\ Transmitted("AttachCorrectionInputs", "detector", ValidForAllSteps(list),
                 ConfigurationNamesOf(fConfigurations),
                 DetectorAttachCorrectionInputs(fConfigurations, fQnVectorCorrections,
                    list, fState, fInputHistograms, fCalibrationHistograms))
  /\ UNCHANGED <<usage, fHarmonicMap>>
  /\ UNCHANGED <<fCorrectionsManager, fRegistry, fDetectorConfigurationForAlignmentName,
                 fDetectorConfigurationForAlignment, fConfigurations, fatal>>
  /\ UNCHANGED <<fQnVectorCorrections, fPlainQnVector, fCorrectedQnVector,
                 fReferenceQnVector, fSupportDataStructures, fStepQnVector,
                 fInputQnVector, fQANotValidatedBin, variableContainer, pc,
                 ixCorrection, nEvents, calls, attach>>

\* CreateSupportHistograms of the configuration when it is a channelized one
CreateSupportHistogramsOfChannels(outcomes) ==
  /\ Running
  /\ pc = "histograms"
  /\ ixCorrection = 1
  /\ LET r == ChannelCreateSupportHistograms(outcomes, fQnVectorCorrections,
                 fState, fInputHistograms, fCalibrationHistograms)
     IN  /\ Transmitted("CreateSupportHistograms", "channels", TRUE,
                        fQnVectorCorrections, r)
         /\ pc' = IF r.called # <<>> THEN "idle" ELSE pc
  /\ UNCHANGED <<usage, fHarmonicMap>>
  /\ UNCHANGED <<fCorrectionsManager, fRegistry, fDetectorConfigurationForAlignmentName,
                 fDetectorConfigurationForAlignment, fConfigurations, fatal>>
  /\ UNCHANGED <<fQnVectorCorrections, fPlainQnVector, fCorrectedQnVector,
                 fReferenceQnVector, fSupportDataStructures, fStepQnVector,
                 fInputQnVector, fQANotValidatedBin, variableContainer,
                 ixCorrection, nEvents, calls, attach>>

\* AttachCorrectionInputs(list) of the configuration when it is a channelized
\* one, before the first event
AttachCorrectionInputsOfChannels(outcomes, list) ==
  /\ Running
  /\ pc = "idle"
  /\ nEvents = 0
  /\ Transmitted("AttachCorrectionInputs", "channels", ValidForAllSteps(list),
                 fQnVectorCorrections,
                 ChannelAttachCorrectionInputs(outcomes, fQnVectorCorrections, list,
                    fState, fInputHistograms, fCalibrationHistograms))
  /\ UNCHANGED <<usage, fHarmonicMap>>
  /\ UNCHANGED <<fCorrectionsManager, fRegistry, fDetectorConfigurationForAlignmentName,
                 fDetectorConfigurationForAlignment, fConfigurations, fatal>>
  /\ UNCHANGED <<fQnVectorCorrections, fPlainQnVector, fCorrectedQnVector,
                 fReferenceQnVector, fSupportDataStructures, fStepQnVector,
                 fInputQnVector, fQANotValidatedBin, variableContainer, pc,
                 ixCorrection, nEvents, calls, attach>>

NextDetector ==
  \/ \E k \in Kinds : AddCorrectionStep(k)
  \/ \E c \in Configurations : AddConfiguration(c)
  \/ CreateSupportDataStructures
  \/ CreateSupportHistograms
  \/ CreateSupportHistogramsOfConfiguration
  \/ CreateSupportHistogramsOfDetector
  \/ \E list \in CalibrationLists : AttachCorrectionInputs(list)
  \/ \E list \in CalibrationLists : AttachCorrectionInputsOfDetector(list)
  \/ \E outcomes \in InputDataOutcomes : CreateSupportHistogramsOfChannels(outcomes)
  \/ \E outcomes \in InputDataOutcomes, list \in CalibrationLists :
       AttachCorrectionInputsOfChannels(outcomes, list)

SpecDetector == Init /\ [][NextDetector]_vars

(***************************************************************************)
(* The report on the usage of the correction steps, asked from a step of   *)
(* the configuration in any of its states before the first event.          *)
(***************************************************************************)
ReportUsageStep(k) ==
  /\ pc = "idle"
  /\ nEvents = 0
  /\ InList(k)
  /\ LET r == ReportUsage(fState[k], k, <<>>, <<>>)
     IN  usage' = [step |-> k, state |-> fState[k], ret |-> r.ret,
                   calibrationList |-> r.calibrationList, applyList |-> r.applyList]
  /\ UNCHANGED fHarmonicMap
  /\ UNCHANGED setupVars
  /\ UNCHANGED runVars
  /\ UNCHANGED <<fQnVectorCorrections, fState, fSupportDataStructures,
                 fInputHistograms, pc, ixCorrection>>

NextUsage ==
  \/ \E k \in Kinds : AddCorrectionStep(k)
  \/ CreateSupportDataStructures
  \/ CreateSupportHistograms
  \/ \E k \in Kinds, list \in CalibrationLists : AttachInputStep(k, list)
  \/ \E k \in Kinds : DemoteToApplying(k)
  \/ \E k \in Kinds : BecomePassive(k)
  \/ \E k \in RefSteps : ReportUsageStep(k)

SpecUsage == Init /\ [][NextUsage]_vars

(***************************************************************************)
(* The harmonics: the detector configuration and its reference are          *)
(* constructed with any set of harmonics, the corrections are added and    *)
(* the support data structures of the steps are created.                   *)
(***************************************************************************)
InitHarmonics ==
  /\ Constructed
  /\ \E own \in HarmonicSets, reference \in HarmonicSets :
       fHarmonicMap = HarmonicMaps(own, reference)
  /\ fCorrectionsManager = GetInstance
  /\ fRegistry = [m \in Managers |-> IF m = GetInstance THEN {"B"} ELSE {}]
  /\ fDetectorConfigurationForAlignmentName = [s \in RefSteps |-> "B"]
  /\ fDetectorConfigurationForAlignment =
       [s \in RefSteps |-> FindDetectorConfiguration(fRegistry, GetInstance, "B")]

NextHarmonics ==
  \/ \E k \in Kinds : AddCorrectionStep(k)
  \/ CreateSupportDataStructures

SpecHarmonics == InitHarmonics /\ [][NextHarmonics]_vars

(***************************************************************************)
(* Properties.                                                             *)
(***************************************************************************)
Applying(state) == state \in {QCORRSTEP_applyCollect, QCORRSTEP_apply}
Collecting(state) == state \in {QCORRSTEP_calibration, QCORRSTEP_applyCollect}

\* the calls which may correct the Qn vector, and those which may collect data
CorrectionCalls == {i \in 1..Len(calls) : calls[i].op \in {"Process", "ProcessCorrections"}}
CollectionCalls == {i \in 1..Len(calls) : calls[i].op \in {"Process", "ProcessDataCollection"}}

SameCoordinates(a, b) == a.Qx = b.Qx /\ a.Qy = b.Qy

\* C1: whatever the order in which the corrections were added, the set of
\* corrections is stored in strictly ascending lexical order of the keys, and
\* the steps of an event are called in that order: a call to step s precedes
\* a call to another step t only if key(s) < key(t), and at the end of the
\* chain every stored step has been called.
C1_AscendingKeyOrder ==
  /\ \A i, j \in 1..Len(fQnVectorCorrections) :
       i < j => CompareTo(szKey(fQnVectorCorrections[i]), szKey(fQnVectorCorrections[j])) < 0
  /\ \A i, j \in 1..Len(calls) :
       (i < j /\ calls[i].step # calls[j].step)
         => CompareTo(szKey(calls[i].step), szKey(calls[j].step)) < 0
  /\ pc = "done" => {calls[i].step : i \in 1..Len(calls)} = {k \in Kinds : InList(k)}

\* the three corrections have been processed in one event
C1_Witness ==
  /\ pc = "done"
  /\ {calls[i].step : i \in 1..Len(calls)} = Kinds

\* C2: every step is in state calibration until its input is attached, and an
\* AttachInput call whose histograms attach returns true and leaves the step
\* in state applyCollect, for each of the three corrections.
C2_AttachSucceeds ==
  /\ pc \in {"config", "structures", "histograms"}
       => \A k \in Kinds : fState[k] = QCORRSTEP_calibration
  /\ (attach.step # "none" /\ attach.attached)
       => (attach.ret /\ fState[attach.step] = QCORRSTEP_applyCollect)

\* the three corrections were attached, the last one from state calibration
C2_Witness ==
  /\ attach.step # "none" /\ attach.attached /\ attach.before = QCORRSTEP_calibration
  /\ \A k \in Kinds : fInputHistograms[k].attached /\ fState[k] = QCORRSTEP_applyCollect

\* C3: an AttachInput call whose histograms do not attach returns false and
\* leaves the state of the step as it was; a step whose input was never
\* attached is in state calibration during the whole run, its calls never
\* update the current Qn vector of the configuration and leave it as it was.
C3_AttachFails ==
  /\ (attach.step # "none" /\ ~attach.attached)
       => (~attach.ret /\ fState[attach.step] = attach.before)
  /\ \A k \in Kinds : ~fInputHistograms[k].attached => fState[k] = QCORRSTEP_calibration
  /\ \A i \in 1..Len(calls) :
       ~calls[i].input.attached
         => /\ calls[i].state = QCORRSTEP_calibration
            /\ ~calls[i].out.updated
            /\ calls[i].out.current = calls[i].in

\* a step whose attach failed on a layout mismatch goes through an event with
\* a good Qn vector while a later step applies its correction
C3_Witness ==
  /\ pc = "done"
  /\ \E i, j \in 1..Len(calls) :
       /\ i < j
       /\ calls[i].step = "Recentering" /\ ~calls[i].input.attached /\ calls[i].in.good
       /\ calls[j].out.updated

\* C4: the state of a step only moves forward, calibration then applyCollect
\* then apply: an AttachInput call on a step in state apply leaves it in
\* state apply, on a step in state passive it does not put it in state
\* applyCollect, and on a step in state applyCollect it does not put it back
\* in state calibration.
C4_StateOnlyAdvances ==
  attach.step # "none"
    => /\ attach.before = QCORRSTEP_apply => fState[attach.step] = QCORRSTEP_apply
       /\ attach.before = QCORRSTEP_passive => fState[attach.step] # QCORRSTEP_applyCollect
       /\ attach.before = QCORRSTEP_applyCollect => fState[attach.step] # QCORRSTEP_calibration

\* C5: a call to Process or ProcessCorrections of a step in state calibration
\* or passive does not call UpdateCurrentQnVector and leaves the current Qn
\* vector of the configuration as it was: coordinates, quality and name.
C5_NoCorrectionWhenNotApplying ==
  \A i \in CorrectionCalls :
    calls[i].state \in {QCORRSTEP_calibration, QCORRSTEP_passive}
      => /\ ~calls[i].out.updated
         /\ calls[i].out.current = calls[i].in
         /\ (i = Len(calls) => fCorrectedQnVector = calls[i].in)

\* in one event a passive step and a calibrating step were processed after a
\* step which applied its correction to a good Qn vector
C5_Witness ==
  \E i, j, l \in CorrectionCalls :
    /\ i < j /\ i < l
    /\ Applying(calls[i].state) /\ calls[i].in.good
    /\ calls[j].state = QCORRSTEP_passive
    /\ calls[l].state = QCORRSTEP_calibration

\* C6: the calibration histograms of a step are filled only in the states
\* calibration and applyCollect: a call to a step in state apply or passive
\* fills nothing and leaves its calibration histograms as they were.
C6_CollectOnlyWhenCollecting ==
  \A i \in 1..Len(calls) :
    /\ (calls[i].out.filled \/ calls[i].out.calibration # calls[i].calibration)
         => Collecting(calls[i].state)
    /\ (i = Len(calls) /\ ~Collecting(calls[i].state))
         => fCalibrationHistograms[calls[i].step].bins = calls[i].calibration

\* a step in state apply and a passive step were processed in an event where
\* all the Qn vectors were good, so that a collecting step would have filled
C6_Witness ==
  \E i, j \in CollectionCalls :
    /\ calls[i].state = QCORRSTEP_apply /\ calls[i].self.good /\ calls[i].reference.good
    /\ calls[j].state = QCORRSTEP_passive /\ calls[j].self.good /\ calls[j].reference.good

\* C7: when a step in state applyCollect or apply is processed with a current
\* Qn vector of bad quality, it computes no coordinates, it calls
\* UpdateCurrentQnVector and the current Qn vector is then of bad quality; every
\* later applying step of the event publishes a Qn vector of bad quality too.
C7_BadQualityPropagates ==
  \A i \in CorrectionCalls :
    (Applying(calls[i].state) /\ ~calls[i].in.good)
      => /\ ~calls[i].out.corrected
         /\ SameCoordinates(calls[i].out.buffer, calls[i].before)
         /\ calls[i].out.updated
         /\ ~calls[i].out.current.good
         /\ (i = Len(calls) => ~fCorrectedQnVector.good)
         /\ \A j \in CorrectionCalls :
              (i < j /\ Applying(calls[j].state))
                => (calls[j].out.updated /\ ~calls[j].out.current.good)

\* the three corrections were applied in one event whose plain Qn vector was bad
C7_Witness ==
  /\ pc = "done"
  /\ ~fPlainQnVector.good
  /\ Cardinality({calls[i].step : i \in {j \in CorrectionCalls : Applying(calls[j].state)}}) = 3

AlignmentApplications ==
  {i \in CorrectionCalls : calls[i].step = "Alignment" /\ Applying(calls[i].state)}

\* the correction the attached histograms give for the bin of the call
ValidatedAndSignificant(call) ==
  /\ BinContentValidated(call.input.bins, call.bin)
  /\ AlignmentSignificant(call.input.bins[call.bin])

\* C9 as stated: when Alignment applies and the current Qn vector of the
\* reference configuration is of bad quality, the Qn vector it publishes is of
\* bad quality and is not rotated, also when its own input is of good quality.
C9_BadReferenceMarksBad ==
  \A i \in AlignmentApplications :
    ~calls[i].reference.good
      => (~calls[i].out.current.good /\ ~calls[i].out.corrected)

\* C9 amended: when Alignment applies, the quality of the Qn vector it publishes
\* is the quality of its own input: a bad input is published bad and not
\* rotated, a good input is published good and is rotated exactly when the
\* attached histograms give a validated and significant correction, whatever
\* the quality of the current Qn vector of the reference configuration.
C9_OwnQualityDecides ==
  \A i \in AlignmentApplications :
    /\ calls[i].out.updated
    /\ calls[i].out.current.good = calls[i].in.good
    /\ ~calls[i].in.good => ~calls[i].out.corrected
    /\ calls[i].in.good => (calls[i].out.corrected <=> ValidatedAndSignificant(calls[i]))

\* Alignment rotated a good Qn vector while the one of the reference
\* configuration was bad
C9_Witness ==
  \E i \in AlignmentApplications :
    /\ calls[i].in.good /\ ~calls[i].reference.good
    /\ calls[i].out.corrected /\ calls[i].out.current.good
    /\ ~SameCoordinates(calls[i].out.current, calls[i].in)

\* sqrt((XY-YX)^2 / (eXY^2 + eYX^2)) >= 2.0: the quotient is a number not
\* smaller than 4, or it is infinite
StatisticAtLeastTwo(bin) ==
  LET num == (bin.XY - bin.YX) * (bin.XY - bin.YX)
      den == bin.eXY * bin.eXY + bin.eYX * bin.eYX
  IN  \/ den > 0 /\ num >= 4 * den
      \/ den = 0 /\ num > 0

\* C10: when Alignment applies to a good Qn vector with a usable (validated)
\* bin, every harmonic is rotated by deltaPhi if and only if the statistic
\* sqrt((XY-YX)^2 / (eXY^2 + eYX^2)) of the bin is >= 2.0, and in every other
\* case the published Qn vector has exactly the coordinates of the input.
C10_RotatedIffSignificant ==
  \A i \in AlignmentApplications :
    (calls[i].in.good /\ BinContentValidated(calls[i].input.bins, calls[i].bin))
      => /\ calls[i].out.corrected <=> StatisticAtLeastTwo(calls[i].input.bins[calls[i].bin])
         /\ ~StatisticAtLeastTwo(calls[i].input.bins[calls[i].bin])
              => SameCoordinates(calls[i].out.current, calls[i].in)

\* the calls in which the alignment or the twist and rescale step applies its
\* correction to a good Qn vector with a validated bin of its input histograms
RotationCalls ==
  {i \in CorrectionCalls :
     /\ calls[i].step \in {"Alignment", "TwistAndRescale"}
     /\ Applying(calls[i].state)
     /\ calls[i].in.good
     /\ BinContentValidated(calls[i].input.bins, calls[i].bin)}

\* sqrt((XY-YX)^2 / (eXY^2 + eYX^2)) = 2.0 exactly
StatisticExactlyTwo(bin) ==
  LET num == (bin.XY - bin.YX) * (bin.XY - bin.YX)
      den == bin.eXY * bin.eXY + bin.eYX * bin.eYX
  IN  den > 0 /\ num = 4 * den

\* C11 as stated: when the statistic of the bin is exactly 2.0 the correction
\* is not applied: Alignment and TwistAndRescale publish the coordinates of the
\* input Qn vector, not rotated.
C11_BoundaryNotApplied ==
  \A i \in RotationCalls :
    StatisticExactlyTwo(calls[i].input.bins[calls[i].bin])
      => (~calls[i].out.corrected /\ SameCoordinates(calls[i].out.current, calls[i].in))

\* C11 amended: when the statistic of the bin is exactly 2.0 the correction is
\* applied: Alignment and TwistAndRescale publish the input Qn vector with
\* every harmonic h rotated by h * deltaPhi.
C11_BoundaryApplied ==
  \A i \in RotationCalls :
    StatisticExactlyTwo(calls[i].input.bins[calls[i].bin])
      => /\ calls[i].out.corrected
         /\ SameCoordinates(calls[i].out.current,
                            Rotate(calls[i].in, calls[i].in,
                                   DeltaPhi(calls[i].input.bins[calls[i].bin])))
         /\ calls[i].out.current.good

\* in one event Alignment and TwistAndRescale each applied a correction whose
\* statistic is exactly 2.0, and the published coordinates changed
C11_Witness ==
  \E i, j \in RotationCalls :
    /\ calls[i].step = "Alignment" /\ calls[j].step = "TwistAndRescale"
    /\ StatisticExactlyTwo(calls[i].input.bins[calls[i].bin])
    /\ StatisticExactlyTwo(calls[j].input.bins[calls[j].bin])
    /\ ~SameCoordinates(calls[i].out.current, calls[i].in)
    /\ ~SameCoordinates(calls[j].out.current, calls[j].in)

\* the step in which ProcessCorrections of the twist and rescale step runs
\* while the step applies its correction
TwistAndRescaleApplies ==
  /\ pc = "corrections"
  /\ pc' # "corrections"
  /\ Applying(fState["TwistAndRescale"])

\* the bin of the event is validated in the input histograms of the step
TwistAndRescaleBinValidated ==
  BinContentValidated(fInputHistograms["TwistAndRescale"].bins, variableContainer)

\* C12 as stated: whenever TwistAndRescale processes an event in an applying
\* state, if the bin of the event is not validated the published coordinates
\* are those of the input and the not validated counter of that event class
\* increases by exactly 1; if the bin is validated the counter is unchanged.
C12_NotValidatedCounted ==
  [][TwistAndRescaleApplies =>
       IF TwistAndRescaleBinValidated
       THEN fQANotValidatedBin'.counts = fQANotValidatedBin.counts
       ELSE /\ SameCoordinates(fCorrectedQnVector', fCorrectedQnVector)
            /\ fQANotValidatedBin'.counts =
                 [fQANotValidatedBin.counts EXCEPT ![variableContainer] = @ + 1]]_vars

\* C12 amended: whenever TwistAndRescale processes an event in an applying
\* state with a good input Qn vector and a not validated bin, the published
\* coordinates are those of the input, and the not validated counter of that
\* event class increases by exactly 1 when the not validated entries histogram
\* was created, nothing being counted when it was not; when the bin is
\* validated or the input Qn vector is bad the counters are unchanged.
C12_NotValidatedCountedWhenCreated ==
  [][TwistAndRescaleApplies =>
       IF fCorrectedQnVector.good /\ ~TwistAndRescaleBinValidated
       THEN /\ SameCoordinates(fCorrectedQnVector', fCorrectedQnVector)
            /\ fCorrectedQnVector'.good
            /\ fQANotValidatedBin'.counts =
                 IF fQANotValidatedBin.created
                 THEN [fQANotValidatedBin.counts EXCEPT ![variableContainer] = @ + 1]
                 ELSE fQANotValidatedBin.counts
       ELSE fQANotValidatedBin' = fQANotValidatedBin]_vars

\* TwistAndRescale has just applied to a good Qn vector whose bin is not
\* validated, and the entry was counted for the event class
C12_Witness ==
  /\ calls # <<>>
  /\ LET last == calls[Len(calls)]
     IN  /\ last.step = "TwistAndRescale" /\ last.op = "ProcessCorrections"
         /\ Applying(last.state) /\ last.in.good
         /\ ~BinContentValidated(last.input.bins, last.bin)
         /\ last.out.notValidated
         /\ fQANotValidatedBin.created
         /\ fQANotValidatedBin.counts[last.bin] > 0

\* the bin of the call is not validated in the input histograms of the step:
\* it has no entry for Recentering, less than the minimum for the other steps
BinNotValidated(call) ==
  IF call.step = "Recentering"
  THEN call.input.bins[call.bin].entries = 0
  ELSE ~BinContentValidated(call.input.bins, call.bin)

\* C13 as stated: for the three steps, when the bin of the event is not
\* validated in the input histograms (for Recentering: has no entry), the
\* published Qn vector has the coordinates of the input Qn vector.
C13_NotValidatedNotUsed ==
  \A i \in CorrectionCalls :
    (Applying(calls[i].state) /\ BinNotValidated(calls[i]))
      => SameCoordinates(calls[i].out.current, calls[i].in)

\* C13 amended: for the three steps, when the input Qn vector is of good
\* quality and the bin of the event is not validated in the input histograms
\* (for Recentering: has no entry), the published Qn vector is of good quality
\* and has the coordinates of the input Qn vector.
C13_NotValidatedNotUsedOnGood ==
  \A i \in CorrectionCalls :
    (Applying(calls[i].state) /\ calls[i].in.good /\ BinNotValidated(calls[i]))
      => /\ SameCoordinates(calls[i].out.current, calls[i].in)
         /\ calls[i].out.current.good
         /\ calls[i].out.updated

\* in one event the three steps applied to a good Qn vector with a bin not
\* validated, the bins of Alignment and TwistAndRescale holding a significant
\* correction
C13_Witness ==
  /\ pc = "done"
  /\ \A k \in Kinds :
       \E i \in CorrectionCalls :
         /\ calls[i].step = k /\ Applying(calls[i].state) /\ calls[i].in.good
         /\ BinNotValidated(calls[i])
         /\ k # "Recentering" => AlignmentSignificant(calls[i].input.bins[calls[i].bin])
  /\ fCorrectedQnVector.Qx # ZeroComponents

\* C14: Recentering without width equalization, applied to a good Qn vector
\* with a bin whose means X and Y are null for every harmonic, publishes the Qx
\* and Qy of the input for every harmonic.
C14_ZeroMeanKeepsVector ==
  \A i \in CorrectionCalls :
    /\ calls[i].step = "Recentering" /\ Applying(calls[i].state) /\ calls[i].in.good
    /\ ~fApplyWidthEqualization
    /\ calls[i].input.bins[calls[i].bin].X = ZeroComponents
    /\ calls[i].input.bins[calls[i].bin].Y = ZeroComponents
    => /\ SameCoordinates(calls[i].out.current, calls[i].in)
       /\ calls[i].out.current.good

\* Recentering was applied to a good Qn vector, not null, with a bin which has
\* entries, null means and widths different from 1
C14_Witness ==
  \E i \in CorrectionCalls :
    /\ calls[i].step = "Recentering" /\ Applying(calls[i].state) /\ calls[i].in.good
    /\ calls[i].out.corrected
    /\ calls[i].input.bins[calls[i].bin].entries > 0
    /\ calls[i].input.bins[calls[i].bin].X = ZeroComponents
    /\ calls[i].input.bins[calls[i].bin].Y = ZeroComponents
    /\ calls[i].input.bins[calls[i].bin].eX[1] > 1
    /\ calls[i].in.Qx # ZeroComponents

\* the calls in which the twist and rescale step collects data
TwistAndRescaleCollections ==
  {i \in 1..Len(calls) : calls[i].op = "ProcessDataCollection" /\ Collecting(calls[i].state)}

\* the corrected Qn vector of the step stored before TwistAndRescale in the
\* set of corrections, the plain Qn vector when there is none
PreviousStepQnVector ==
  LET i == CHOOSE j \in 1..Len(fQnVectorCorrections) :
             fQnVectorCorrections[j] = "TwistAndRescale"
  IN  IF i = 1 THEN fPlainQnVector ELSE fStepQnVector[fQnVectorCorrections[i - 1]]

ReferenceSetUp(s) ==
  /\ InList(s)
  /\ ~fatal
  /\ fCorrectionsManager # NoManager
  /\ fDetectorConfigurationForAlignmentName[s] # ""
  /\ fDetectorConfigurationForAlignmentName[s] \in fRegistry[fCorrectionsManager]

\* the configuration registered under the stored name of the step s
RegisteredReference(s) ==
  FindDetectorConfiguration(fRegistry, fCorrectionsManager,
                            fDetectorConfigurationForAlignmentName[s])

TwistAndRescaleReferenceResolved ==
  ReferenceSetUp("TwistAndRescale") =>
    fDetectorConfigurationForAlignment["TwistAndRescale"] =
      RegisteredReference("TwistAndRescale")

\* C17: no alignment or twist and rescale step gets past the setup with its
\* reference not located: when the reference of a step of the attached
\* configuration is still not located, a fatal error has been raised, and no
\* support structure is created nor null reference accessed
C17_UnresolvedIsFatal ==
  /\ \A s \in RefSteps :
       (InList(s) /\ fCorrectionsManager # NoManager
          /\ fDetectorConfigurationForAlignment[s] = NULL) => fatal
  /\ ~undefined


\* the configurations of the list are owned by the detector and no two of
\* them have the same name
OwnDistinctConfigurations(configurations) ==
  /\ \A i \in 1..Len(configurations) : configurations[i].detector = Detector
  /\ \A i, j \in 1..Len(configurations) :
       configurations[i].name = configurations[j].name => i = j

\* C18: after any sequence of AddDetectorConfiguration calls the list of the
\* detector holds only configurations owned by the detector and no two with
\* the same name: a call with a configuration of another detector, or with a
\* name already in the list, raises a fatal error and leaves the list unchanged
C18_OnlyOwnDistinctConfigurations ==
  [][ /\ OwnDistinctConfigurations(fConfigurations')
      /\ \A c \in Configurations :
           (AddConfiguration(c)
              /\ (c.detector # Detector \/ FindObject(fConfigurations, c.name)))
             => (fatal' /\ fConfigurations' = fConfigurations) ]_vars

\* a third configuration was refused after two were added
C18_Witness == fatal /\ Len(fConfigurations) = 2

\* the correction steps of the configuration were asked to attach their inputs
StepsAsked ==
  \/ transmit.level = "configuration"
  \/ \E i \in 1..Len(transmit.all) : transmit.all[i] = ConcreteName

\* C19: AttachCorrectionInputs transmits the request to every correction step
\* of the configuration, and to every configuration of the detector: after a
\* call with a list which has the input of every step, every member was
\* called and every step is in QCORRSTEP_applyCollect
C19_TransmittedToAll ==
  (transmit.op = "AttachCorrectionInputs" /\ transmit.valid /\ ~undefined) =>
    /\ transmit.called = transmit.all
    /\ StepsAsked => \A k \in Kinds : InList(k) => fState[k] = QCORRSTEP_applyCollect

\* C20: AttachCorrectionInputs and CreateSupportHistograms return kTRUE
\* exactly when every member they called returned kTRUE, and kFALSE when
\* at least one of them returned kFALSE
C20_TrueIffAllTrue ==
  (transmit.op # "none" /\ transmit.all # <<>> /\ ~undefined) =>
    (transmit.ret <=> \A i \in 1..Len(transmit.rets) : transmit.rets[i])


\* C21: a channelized detector configuration transmits AttachCorrectionInputs
\* and CreateSupportHistograms to its input data corrections and then to its
\* Qn vector corrections: the Qn vector correction steps receive the request
\* also when there is no input data correction or none reported success
C21_ChannelsTransmitToQnVectorCorrections ==
  (transmit.level = "channels" /\ transmit.all # <<>> /\ ~undefined) =>
    transmit.called # <<>>


\* C22: CreateSupportHistograms of a configuration reaches every one of its
\* Qn vector correction steps, so that each step has its input histograms
\* and its calibration histograms before any AttachInput call; no step is
\* skipped because an earlier step returned kTRUE
C22_EveryStepHasHistograms ==
  (transmit.op = "CreateSupportHistograms" /\ transmit.level = "configuration") =>
    /\ transmit.called = fQnVectorCorrections
    /\ \A k \in Kinds :
         InList(k) => fInputHistograms[k].created /\ fCalibrationHistograms[k].created


\* the calls of the current event in which a step in an applying state ran
\* its application of the correction
AppliedCalls ==
  {i \in 1..Len(calls) : /\ calls[i].op \in {"Process", "ProcessCorrections"}
                         /\ Applying(calls[i].state)}

LastApplied == CHOOSE i \in AppliedCalls : \A j \in AppliedCalls : j <= i

\* C23: at every point of the chain of an event the current Qn vector of the
\* configuration is the corrected Qn vector of the last step which ran in an
\* applying state in the event, the Qn vector the event started with when no
\* step has applied yet; a step in an applying state always publishes its
\* corrected Qn vector, the current Qn vector being good or bad, the bin
\* validated or not, the correction significant or not
C23_CurrentIsLastApplied ==
  pc \in {"chain", "corrections", "done"} =>
    /\ \A i \in AppliedCalls : calls[i].out.updated
    /\ IF AppliedCalls = {}
       THEN fCorrectedQnVector = fPlainQnVector
       ELSE fCorrectedQnVector = fStepQnVector[calls[LastApplied].step]

\* two steps applied in the event, the last one on a bad Qn vector
C23_Witness ==
  /\ pc = "done"
  /\ Cardinality(AppliedCalls) >= 2
  /\ ~calls[LastApplied].in.good


\* C24: after a step in an applying state has published its corrected Qn
\* vector, the name of the current Qn vector of the configuration tells which
\* of the three kinds of correction touched it last; the corrected Qn vector
\* of a step keeps its name when it takes the values of the current one
C24_LabelIdentifiesLastCorrection ==
  (pc \in {"chain", "corrections", "done"} /\ AppliedCalls # {}) =>
    /\ \A k \in Kinds :
         fCorrectedQnVector.name = szCorrectedQnVectorName(k)
           <=> k = calls[LastApplied].step
    /\ \A k \in Kinds : fStepQnVector[k].name = szCorrectedQnVectorName(k)

\* C25: the three kinds of correction can be in one detector configuration:
\* the names of the steps of the configuration are pairwise distinct and
\* their keys increase, recentering before alignment before twist and rescale
C25_DistinctNamesOrderedKeys ==
  /\ \A i, j \in 1..Len(fQnVectorCorrections) :
       i < j =>
         /\ szCorrectionName(fQnVectorCorrections[i])
              # szCorrectionName(fQnVectorCorrections[j])
         /\ Before(fQnVectorCorrections[i], fQnVectorCorrections[j])
  /\ Before("Recentering", "Alignment")
  /\ Before("Alignment", "TwistAndRescale")


InUsageList(list, name) == \E i \in 1..Len(list) : list[i] = name

\* C26: ReportUsage returns kTRUE if and only if the step is being applied;
\* it adds the name of the step to the calibration list exactly when the
\* step is collecting and to the apply list exactly when it is applying; for
\* a passive step it adds the name to neither list and returns kFALSE
C26_ReportUsageTellsApplied ==
  usage.step # "none" =>
    /\ usage.ret <=> Applying(usage.state)
    /\ InUsageList(usage.calibrationList, szCorrectionName(usage.step))
         <=> Collecting(usage.state)
    /\ InUsageList(usage.applyList, szCorrectionName(usage.step))
         <=> Applying(usage.state)


\* C27: the value returned by the processing of an event tells whether a
\* correction was applied: ProcessDataCollection returns kFALSE in every
\* state, and Process and ProcessCorrections return kTRUE only when the step
\* is in an applying state
C27_ReturnTellsApplied ==
  \A i \in 1..Len(calls) :
    /\ calls[i].op = "ProcessDataCollection" => ~calls[i].out.ret
    /\ (calls[i].op \in {"Process", "ProcessCorrections"} /\ calls[i].out.ret)
         => Applying(calls[i].state)

\* the steps whose correction processing was called in the current event
ProcessedSteps ==
  {calls[i].step : i \in {j \in 1..Len(calls) :
                            calls[j].op \in {"Process", "ProcessCorrections"}}}

\* C28: the quality of the data never aborts the run: a bad Qn vector, a bin
\* not validated or a correction not significant raises no fatal error, and
\* the steps left in the event are still processed, as are the later events
C28_QualityNeverAborts ==
  /\ Running
  /\ pc \in {"chain", "corrections"} =>
       ProcessedSteps = {fQnVectorCorrections[i] : i \in 1..(ixCorrection - 1)}
  /\ pc = "done" => \A k \in Kinds : InList(k) => k \in ProcessedSteps
  /\ (pc = "idle" /\ nEvents < MaxEvents) =>
       \A ev \in EventInputs : ENABLED BuildQnVector(ev)

\* a later event whose first step was given a bad Qn vector, every step of
\* the configuration being processed
C28_Witness ==
  /\ pc = "done"
  /\ nEvents >= 1
  /\ Len(fQnVectorCorrections) >= 2
  /\ ~calls[1].in.good
  /\ \E i \in 1..Len(calls) : Applying(calls[i].state)


\* the calls of the current event to a recentering or alignment step in
\* state QCORRSTEP_applyCollect
ApplyCollectCalls ==
  {i \in 1..Len(calls) : /\ calls[i].step \in {"Recentering", "Alignment"}
                         /\ calls[i].state = QCORRSTEP_applyCollect}

\* the calibration histograms of the call filled from the Qn vector Qn
FilledFrom(call, Qn) ==
  IF call.step = "Recentering"
  THEN IF Qn.good
       THEN FillComponents(call.calibration, call.bin, Qn)
       ELSE call.calibration
  ELSE CorrelationCollect(Untouched(TRUE, Qn, call.before, call.calibration),
                          Qn, call.reference, call.bin).calibration

\* C29: a step in state QCORRSTEP_applyCollect collects and then applies in
\* the same event, whatever was collected: for the recentering and the
\* alignment steps what is filled for the event is computed from the current
\* Qn vector as it was before the correction of the step was published
C29_CollectsBeforeApplying ==
  \A i \in ApplyCollectCalls :
    /\ calls[i].out.updated
    /\ calls[i].out.calibration = FilledFrom(calls[i], calls[i].in)

\* a recentering step in state QCORRSTEP_applyCollect filled its histograms
\* and published a Qn vector with other coordinates than the one it was given
C29_Witness ==
  \E i \in ApplyCollectCalls :
    /\ calls[i].step = "Recentering"
    /\ calls[i].out.filled
    /\ calls[i].out.corrected
    /\ calls[i].out.current.Qx # calls[i].in.Qx
    /\ FilledFrom(calls[i], calls[i].out.current) # FilledFrom(calls[i], calls[i].in)


\* the calls of the current event in which the alignment rotation was applied
RotatedCalls ==
  {i \in 1..Len(calls) : /\ calls[i].step \in RefSteps
                         /\ calls[i].out.corrected}

\* deltaPhi of the rotation applied in the call
DeltaPhiOf(call) == DeltaPhi(call.input.bins[call.bin])

\* C30: the alignment rotation keeps the norm: for every harmonic h and
\* whatever deltaPhi, Qx'(h)^2 + Qy'(h)^2 = Qx(h)^2 + Qy(h)^2, both rotated
\* components being computed from the components of the Qn vector before
\* the rotation
C30_RotationKeepsNorm ==
  \A i \in RotatedCalls : \A h \in Harmonics :
    LET Qn == calls[i].in
        new == calls[i].out.buffer
        angle == h * DeltaPhiOf(calls[i])
    IN  /\ new.Qx[h] * new.Qx[h] + new.Qy[h] * new.Qy[h]
             = Qn.Qx[h] * Qn.Qx[h] + Qn.Qy[h] * Qn.Qy[h]
        /\ new.Qx[h] = Qn.Qx[h] * Cos(angle) + Qn.Qy[h] * Sin(angle)
        /\ new.Qy[h] = Qn.Qy[h] * Cos(angle) - Qn.Qx[h] * Sin(angle)

\* a rotation by an odd number of quarter turns of a Qn vector whose
\* components differ
C30_Witness ==
  \E i \in RotatedCalls :
    /\ DeltaPhiOf(calls[i]) % 2 = 1
    /\ calls[i].in.Qx[1] # calls[i].in.Qy[1]
    /\ calls[i].out.buffer.Qx # calls[i].in.Qx


\* the calls of the current event to the alignment step in a collecting
\* state with both Qn vectors good
AlignmentFills ==
  {i \in 1..Len(calls) : /\ calls[i].step = "Alignment"
                         /\ Collecting(calls[i].state)
                         /\ calls[i].in.good /\ calls[i].reference.good}

\* C31: the alignment step fills, for an event in which both Qn vectors are
\* good, the four correlation components XX, XY, YX, YY once each, with the
\* products of the components of its Qn vector and of the reference Qn
\* vector at the harmonic for alignment, the same in the states
\* QCORRSTEP_applyCollect and QCORRSTEP_calibration
C31_FourCorrelationComponents ==
  \A i \in AlignmentFills :
    LET m == fHarmonicForAlignment
        Qn == calls[i].in
        ref == calls[i].reference
        old == calls[i].calibration
        new == calls[i].out.calibration
    IN  \A b \in Bins :
          IF b = calls[i].bin
          THEN /\ new[b].entries = old[b].entries + 1
               /\ new[b].XX = old[b].XX + Qn.Qx[m] * ref.Qx[m]
               /\ new[b].XY = old[b].XY + Qn.Qx[m] * ref.Qy[m]
               /\ new[b].YX = old[b].YX + Qn.Qy[m] * ref.Qx[m]
               /\ new[b].YY = old[b].YY + Qn.Qy[m] * ref.Qy[m]
          ELSE new[b] = old[b]

\* the alignment step filled its histograms in state QCORRSTEP_applyCollect
\* in an event and had filled them in the event before
C31_Witness ==
  \E i \in AlignmentFills :
    /\ calls[i].state = QCORRSTEP_applyCollect
    /\ calls[i].calibration[calls[i].bin].entries >= 1
    /\ calls[i].out.calibration[calls[i].bin].XY
         # calls[i].out.calibration[calls[i].bin].YX


\* the corrected Qn vector the step of the call gets from the Qn vector it
\* was given, the event class and the bins of its input histograms
CorrectedFrom(call, bins) ==
  LET nothing == Untouched(TRUE, call.in, call.before, call.calibration)
  IN  IF call.step = "Recentering"
      THEN RecenteringApply(nothing, call.in, bins, call.bin).buffer
      ELSE AlignmentApply(nothing, call.in, bins, call.bin).buffer

\* the input histograms of step k are as the attached list gave them
AsAttached(k) ==
  \E list \in CalibrationLists :
    AttachHistograms(list, k) /\ fInputHistograms[k].bins = list[k].bins

\* C32: the parameters of the correction a step applies are fixed for the
\* run by the input histograms attached: what is filled in the calibration
\* histograms during the run never changes what is read when applying, so
\* the corrected Qn vector only depends on the Qn vector given, the event
\* class and the attached input, however many events were processed
C32_ParametersFixedByInput ==
  /\ \A k \in Kinds : fInputHistograms[k].attached => AsAttached(k)
  /\ \A i \in AppliedCalls :
       /\ AsAttached(calls[i].step)
       /\ calls[i].out.buffer =
            CorrectedFrom(calls[i], fInputHistograms[calls[i].step].bins)
       /\ calls[i].before = ResetQnVector(szCorrectedQnVectorName(calls[i].step))

\* the recentering step applies in a later event, good Qn vector, after its
\* calibration histograms were filled with values which are not those of
\* its input histograms
C32_Witness ==
  /\ nEvents >= 1
  /\ \E i \in AppliedCalls :
       /\ calls[i].step = "Recentering"
       /\ calls[i].state = QCORRSTEP_applyCollect
       /\ calls[i].in.good
       /\ calls[i].calibration[calls[i].bin].entries >= 1
       /\ CorrectedFrom(calls[i], calls[i].out.calibration)
            # CorrectedFrom(calls[i], fInputHistograms["Recentering"].bins)


\* the calls of the twist and rescale step in the event: its data collection
\* followed by its corrections
TwistAndRescalePairs ==
  {d \in 1..Len(calls) :
     /\ calls[d].step = "TwistAndRescale" /\ calls[d].op = "ProcessDataCollection"
     /\ d < Len(calls)
     /\ calls[d + 1].step = "TwistAndRescale" /\ calls[d + 1].op = "ProcessCorrections"}

\* what the step leaves when, from the state its data collection was called
\* in, its corrections are processed first and its data are collected after;
\* the Qn vector it collects from is the plain Qn vector or the corrected Qn
\* vector of the previous step, neither written by ProcessCorrections
CorrectionsThenCollection(call) ==
  LET first == TwistAndRescaleProcessCorrections(call.state, call.in, call.before,
                   call.input.bins, call.calibration, call.bin)
  IN  TwistAndRescaleProcessDataCollection(call.state, first.current, call.self,
          call.reference, first.buffer, first.calibration, call.bin)

\* C33: for the twist and rescale step the data collected for an event and
\* the Qn vector published are the same whether ProcessDataCollection is
\* called before ProcessCorrections or after it
C33_OrderOfCollectionAndCorrections ==
  /\ fInputQnVector # "TwistAndRescale"
  /\ \A d \in TwistAndRescalePairs :
       LET other == CorrectionsThenCollection(calls[d])
           done == calls[d + 1].out
       IN  /\ calls[d + 1].state = calls[d].state
           /\ other.calibration = done.calibration
           /\ other.current = done.current
           /\ other.buffer = done.buffer
           /\ fCorrectedQnVector = other.current

\* the step collected and then rotated the Qn vector of an event: the Qn
\* vector it published is not the one its data collection was given
C33_Witness ==
  \E d \in TwistAndRescalePairs :
    /\ calls[d].state = QCORRSTEP_applyCollect
    /\ calls[d].out.calibration # calls[d].calibration
    /\ ~SameCoordinates(calls[d + 1].out.current, calls[d].in)
    /\ Len(calls) = d + 1


NullCoordinates(Qn) == \A h \in Harmonics : Qn.Qx[h] = 0 /\ Qn.Qy[h] = 0

\* the calls which applied to a Qn vector of bad quality
BadQualityCalls == {i \in AppliedCalls : ~calls[i].in.good}

\* C34: on the bad quality path the Qn vector a step publishes has the
\* coordinates of the Qn vector it was given or null coordinates, never
\* coordinates computed in an earlier event, ClearCorrectionStep being called
\* between the events; the corrected Qn vector of every step has null
\* coordinates and good quality when an event starts
C34_BadQualityPublishesNoEarlierEvent ==
  /\ \A i \in BadQualityCalls :
       /\ calls[i].out.current = calls[i].out.buffer
       /\ ~calls[i].out.current.good
       /\ \/ NullCoordinates(calls[i].out.current)
          \/ SameCoordinates(calls[i].out.current, calls[i].in)
  /\ \A i \in 1..Len(calls) :
       calls[i].op # "ProcessCorrections"
         => calls[i].before = ResetQnVector(szCorrectedQnVectorName(calls[i].step))
  /\ pc = "idle" =>
       \A k \in Kinds : InList(k) =>
         fStepQnVector[k] = ResetQnVector(szCorrectedQnVectorName(k))

\* in a later event the recentering step is given a Qn vector of bad quality
\* whose coordinates are not null, and a step applies to a bad Qn vector
\* after its own was cleared
C34_Witness ==
  /\ nEvents >= 1
  /\ \E i \in BadQualityCalls :
       /\ calls[i].step = "Recentering"
       /\ ~NullCoordinates(calls[i].in)
       /\ NullCoordinates(calls[i].out.current)


\* C35: while an event is processed a step only writes its own corrected Qn
\* vector, its own calibration histograms and QA histogram and the current
\* Qn vector of its detector configuration: the Qn vector of the reference
\* detector configuration, the plain Qn vector of its detector configuration,
\* the input histograms, and what belongs to the other steps are left as
\* they were
C35_StepWritesOnlyItsOwn ==
  [][Len(calls') = Len(calls) + 1 =>
       LET k == calls'[Len(calls')].step
       IN  /\ fReferenceQnVector' = fReferenceQnVector
           /\ fPlainQnVector' = fPlainQnVector
           /\ fInputHistograms' = fInputHistograms
           /\ fState' = fState
           /\ \A j \in Kinds \ {k} :
                /\ fStepQnVector'[j] = fStepQnVector[j]
                /\ fCalibrationHistograms'[j] = fCalibrationHistograms[j]
           /\ k # "TwistAndRescale" => fQANotValidatedBin' = fQANotValidatedBin]_vars

\* the alignment step, second of the set, has rotated the Qn vector and
\* filled its calibration histograms: its corrected Qn vector and the current
\* one are no longer those of the step before it
C35_Witness ==
  /\ Len(calls) >= 2
  /\ calls[Len(calls)].step = "Alignment"
  /\ calls[Len(calls)].state = QCORRSTEP_applyCollect
  /\ calls[Len(calls)].out.calibration # calls[Len(calls)].calibration
  /\ ~SameCoordinates(fStepQnVector["Alignment"], calls[Len(calls)].in)
  /\ ~SameCoordinates(fStepQnVector["Alignment"], fStepQnVector["Recentering"])
  /\ fCorrectedQnVector = fStepQnVector["Alignment"]


\* the statistic of the bin is the quotient 0/0
StatisticUndefined(bin) == bin.eXY = 0 /\ bin.eYX = 0 /\ bin.XY = bin.YX

\* C36: when the statistic of the bin is undefined, eXY = eYX = 0 and
\* XY = YX, the alignment and the twist and rescale steps do not rotate the
\* Qn vector: they publish the coordinates they were given
C36_UndefinedStatisticNotRotated ==
  \A i \in RotationCalls :
    StatisticUndefined(calls[i].input.bins[calls[i].bin])
      => /\ ~calls[i].out.corrected
         /\ SameCoordinates(calls[i].out.current, calls[i].in)


C38_BufferHasHarmonicsOfCurrent ==
  /\ ~undefined
  /\ \A k \in RefSteps \cap fSupportDataStructures :
       /\ fHarmonicForAlignment \in fHarmonicMap["configuration"]
       /\ fHarmonicForAlignment \in fHarmonicMap["reference"]
       /\ fHarmonicMap[k] = fHarmonicMap["configuration"]

=============================================================================
